---- MODULE Spec2Model ----
(***************************************************************************)
(* Aggregation and classification engine of the update-activity dashboard  *)
(* (parse -> aggregateByState -> alerts / ranking), together with the part *)
(* of the Dashboard component that holds the records and the selected      *)
(* month and derives the region summaries from them.                       *)
(*                                                                         *)
(* Numbers are JavaScript doubles in the source.  Every number of the      *)
(* model is a small non-negative integer or a ratio of two of them, where  *)
(* double arithmetic is exact or rounds on the same side of each threshold *)
(* as the exact value, so ratios are compared by cross-multiplication.  A  *)
(* division by a zero total is 0/0 = NaN there, and every comparison with  *)
(* NaN is false.                                                           *)
(***************************************************************************)
EXTENDS Integers, Sequences, FiniteSets, TLC

VARIABLES
    records,        \* Dashboard: useState<AadhaarRecord[]>([])
    selectedMonth,  \* Dashboard: useState<string>('')
    isLoading,      \* Dashboard: useState(true)
    stateData,      \* Dashboard: useMemo(aggregateByState(records, selectedMonth))
    summaryStats,   \* Dashboard: useMemo over stateData
    totalText,      \* the rendered formatNumber(summaryStats.totalUpdates)
    fn,             \* exported function being called ("none" inside the Dashboard)
    arg,            \* its arguments
    ret             \* its result, Pending until the call has returned

vars == <<records, selectedMonth, isLoading, stateData, summaryStats, totalText,
          fn, arg, ret>>

dashVars == <<records, selectedMonth, isLoading, stateData, summaryStats, totalText>>

callVars == <<fn, arg, ret>>

Pending == "pending"

(***************************************************************************)
(* Bounds and input domains                                                *)
(***************************************************************************)

\* longest record list loaded into the Dashboard
MaxRecords == 3

Months == {"2024-01", "2024-02"}

StateNames == {"Bihar", "Goa", "Kerala"}

\* the sub-region part of a row: name and the three bracket counts
SubRegionRows ==
    { [District |-> "Patna", Age_0_5 |-> 2, Age_5_17 |-> 1, Age_18_plus |-> 0],
      [District |-> "Gaya",  Age_0_5 |-> 0, Age_5_17 |-> 1, Age_18_plus |-> 1],
      [District |-> "Patna", Age_0_5 |-> 1, Age_5_17 |-> 1, Age_18_plus |-> 0] }

AadhaarRecord(m, s, row) ==
    [Month |-> m, State |-> s, District |-> row.District,
     Age_0_5 |-> row.Age_0_5, Age_5_17 |-> row.Age_5_17,
     Age_18_plus |-> row.Age_18_plus]

RecordDomain ==
    { AadhaarRecord(m, s, row) : m \in Months, s \in StateNames, row \in SubRegionRows }

SeqsUpTo(S, n) == UNION { [1..k -> S] : k \in 0..n }

RecordLists == SeqsUpTo(RecordDomain, MaxRecords)

(***************************************************************************)
(* Array helpers                                                           *)
(***************************************************************************)

RECURSIVE SumSeq(_)
SumSeq(s) == IF s = <<>> THEN 0 ELSE Head(s) + SumSeq(Tail(s))

RECURSIVE Flatten(_)
Flatten(ss) == IF ss = <<>> THEN <<>> ELSE Head(ss) \o Flatten(Tail(ss))

\* Array.prototype.slice(0, n)
SliceTo(s, n) == SubSeq(s, 1, IF n < Len(s) THEN n ELSE Len(s))

\* Array.prototype.sort((a, b) => a - b) on numbers: ascending
RECURSIVE InsertAsc(_, _)
InsertAsc(x, s) ==
    IF s = <<>> THEN <<x>>
    ELSE IF x < Head(s) THEN <<x>> \o s
         ELSE <<Head(s)>> \o InsertAsc(x, Tail(s))

RECURSIVE SortAsc(_)
SortAsc(s) ==
    IF s = <<>> THEN <<>>
    ELSE InsertAsc(s[Len(s)], SortAsc(SubSeq(s, 1, Len(s) - 1)))

\* Array.prototype.sort((a, b) => b.totalUpdates - a.totalUpdates): the sort is
\* stable, so an element is placed after every element whose total is not
\* strictly smaller than its own.
\* variant: an element is placed before the elements of equal total
RECURSIVE InsertByTotalDescTiesFirst(_, _)
InsertByTotalDescTiesFirst(x, s) ==
    IF s = <<>> THEN <<x>>
    ELSE IF x.totalUpdates >= Head(s).totalUpdates THEN <<x>> \o s
         ELSE <<Head(s)>> \o InsertByTotalDescTiesFirst(x, Tail(s))

RECURSIVE InsertByTotalDesc(_, _)
InsertByTotalDesc(x, s) ==
    IF s = <<>> THEN <<x>>
    ELSE IF x.totalUpdates > Head(s).totalUpdates THEN <<x>> \o s
         ELSE <<Head(s)>> \o InsertByTotalDesc(x, Tail(s))

RECURSIVE SortByTotalDesc(_)
SortByTotalDesc(s) ==
    IF s = <<>> THEN <<>>
    ELSE InsertByTotalDesc(s[Len(s)], SortByTotalDesc(SubSeq(s, 1, Len(s) - 1)))

(***************************************************************************)
(* Engine: classification, aggregation, formatting                         *)
(***************************************************************************)

Max3(a, b, c) ==
    IF a >= b /\ a >= c THEN a ELSE IF b >= c THEN b ELSE c

\* variant: the mid bracket is tested before the high bracket
getDominantAgeGroupMidFirst(age0_5, age5_17, age18Plus) ==
    LET max == Max3(age0_5, age5_17, age18Plus)
    IN  IF max = age5_17 THEN "Youth (5-17)"
        ELSE IF max = age18Plus THEN "Adult (18+)"
        ELSE "Child (0-5)"

getDominantAgeGroup(age0_5, age5_17, age18Plus) ==
    LET max == Max3(age0_5, age5_17, age18Plus)
    IN  IF max = age18Plus THEN "Adult (18+)"
        ELSE IF max = age5_17 THEN "Youth (5-17)"
        ELSE "Child (0-5)"

\* Math.floor(length * 0.33) and Math.floor(length * 0.66), as 0-based indices
P33Index(length) == (length * 33) \div 100

\* variant: the upper cut point is taken where the lower one is
P66IndexAtThird(length) == (length * 33) \div 100

P66Index(length) == (length * 66) \div 100

\* variant: values.sort(...) reorders the array of the caller
SortSpreadCopyInPlace(values) ==
    [sorted |-> SortAsc(values), values |-> SortAsc(values)]

\* [...values].sort((a, b) => a - b): the spread makes a new array and sort()
\* reorders that one; values is the array of the caller afterwards
SortSpreadCopy(values) ==
    [sorted |-> SortAsc(values), values |-> values]

\* variant: a value equal to a cut point goes to the upper bucket
calculateIntensityExclusive(value, values) ==
    LET sorted == SortAsc(values)
        defined == Len(sorted) > 0
        p33 == sorted[P33Index(Len(sorted)) + 1]
        p66 == sorted[P66Index(Len(sorted)) + 1]
    IN  IF defined /\ value < p33 THEN "low"
        ELSE IF defined /\ value < p66 THEN "medium"
        ELSE "high"

\* variant: the first comparison is turned around
calculateIntensityAtLeast(value, values) ==
    LET sorted == SortAsc(values)
        defined == Len(sorted) > 0
        p33 == sorted[P33Index(Len(sorted)) + 1]
        p66 == sorted[P66Index(Len(sorted)) + 1]
    IN  IF defined /\ value >= p33 THEN "low"
        ELSE IF defined /\ value <= p66 THEN "medium"
        ELSE "high"

\* sorted[i] of an empty array is undefined, and value <= undefined is false
calculateIntensity(value, values) ==
    LET sorted == SortAsc(values)
        defined == Len(sorted) > 0
        p33 == sorted[P33Index(Len(sorted)) + 1]
        p66 == sorted[P66Index(Len(sorted)) + 1]
    IN  IF defined /\ value <= p33 THEN "low"
        ELSE IF defined /\ value <= p66 THEN "medium"
        ELSE "high"

\* variant: only the entry set last is looked at
StateMapIndexOfLast(stateMap, key) ==
    IF stateMap # << >> /\ stateMap[Len(stateMap)].state = key THEN Len(stateMap) ELSE 0

\* position of the key in the insertion-ordered Map, 0 when absent
StateMapIndex(stateMap, key) ==
    LET hits == { i \in 1..Len(stateMap) : stateMap[i].state = key }
    IN  IF hits = {} THEN 0 ELSE CHOOSE i \in hits : TRUE

\* variant: the total leaves out the 18+ bracket
NewDistrictTotalOfTwo(record) ==
    [district |-> record.District,
     state |-> record.State,
     totalUpdates |-> record.Age_0_5 + record.Age_5_17,
     age0_5 |-> record.Age_0_5,
     age5_17 |-> record.Age_5_17,
     age18Plus |-> record.Age_18_plus,
     dominantAgeGroup |->
         getDominantAgeGroup(record.Age_0_5, record.Age_5_17, record.Age_18_plus),
     intensity |-> "low"]

\* the DistrictData pushed for one record (lines 380-389)
NewDistrict(record) ==
    [district |-> record.District,
     state |-> record.State,
     totalUpdates |-> record.Age_0_5 + record.Age_5_17 + record.Age_18_plus,
     age0_5 |-> record.Age_0_5,
     age5_17 |-> record.Age_5_17,
     age18Plus |-> record.Age_18_plus,
     dominantAgeGroup |->
         getDominantAgeGroup(record.Age_0_5, record.Age_5_17, record.Age_18_plus),
     intensity |-> "low"]

\* variant: the bracket sums are assigned, not accumulated
StateMapStepAssigns(stateMap, record) ==
    LET idx == StateMapIndex(stateMap, record.State)
        existing == IF idx # 0 THEN stateMap[idx]
                    ELSE [state |-> record.State, age0_5 |-> 0, age5_17 |-> 0,
                          age18Plus |-> 0, districts |-> <<>>]
        updated == [existing EXCEPT
                       !.age0_5 = record.Age_0_5,
                       !.age5_17 = record.Age_5_17,
                       !.age18Plus = record.Age_18_plus,
                       !.districts = Append(@, NewDistrict(record))]
    IN  IF idx # 0 THEN [stateMap EXCEPT ![idx] = updated]
        ELSE Append(stateMap, updated)

\* variant: a row repeating a sub-region of the region is merged into the
\* entry already there
StateMapStepMergesRows(stateMap, record) ==
    LET idx == StateMapIndex(stateMap, record.State)
        existing == IF idx # 0 THEN stateMap[idx]
                    ELSE [state |-> record.State, age0_5 |-> 0, age5_17 |-> 0,
                          age18Plus |-> 0, districts |-> <<>>]
        same == { j \in 1..Len(existing.districts) :
                      existing.districts[j].district = record.District }
        merged(d) ==
            [d EXCEPT !.totalUpdates = @ + NewDistrict(record).totalUpdates,
                      !.age0_5 = @ + record.Age_0_5,
                      !.age5_17 = @ + record.Age_5_17,
                      !.age18Plus = @ + record.Age_18_plus]
        updated == [existing EXCEPT
                       !.age0_5 = @ + record.Age_0_5,
                       !.age5_17 = @ + record.Age_5_17,
                       !.age18Plus = @ + record.Age_18_plus,
                       !.districts =
                           IF same = {} THEN Append(@, NewDistrict(record))
                           ELSE [j \in 1..Len(@) |->
                                    IF j \in same THEN merged(@[j]) ELSE @[j]]]
    IN  IF idx # 0 THEN [stateMap EXCEPT ![idx] = updated]
        ELSE Append(stateMap, updated)

\* one iteration of filtered.forEach (lines 368-392)
StateMapStep(stateMap, record) ==
    LET idx == StateMapIndex(stateMap, record.State)
        existing == IF idx # 0 THEN stateMap[idx]
                    ELSE [state |-> record.State, age0_5 |-> 0, age5_17 |-> 0,
                          age18Plus |-> 0, districts |-> <<>>]
        updated == [existing EXCEPT
                       !.age0_5 = @ + record.Age_0_5,
                       !.age5_17 = @ + record.Age_5_17,
                       !.age18Plus = @ + record.Age_18_plus,
                       !.districts = Append(@, NewDistrict(record))]
    IN  IF idx # 0 THEN [stateMap EXCEPT ![idx] = updated]
        ELSE Append(stateMap, updated)

RECURSIVE BuildStateMap(_)
BuildStateMap(filtered) ==
    IF filtered = <<>> THEN <<>>
    ELSE StateMapStep(BuildStateMap(SubSeq(filtered, 1, Len(filtered) - 1)),
                      filtered[Len(filtered)])

\* Array.from(stateMap.entries()).map(...) (lines 394-403)
NewState(data) ==
    [state |-> data.state,
     totalUpdates |-> data.age0_5 + data.age5_17 + data.age18Plus,
     age0_5 |-> data.age0_5,
     age5_17 |-> data.age5_17,
     age18Plus |-> data.age18Plus,
     districts |-> data.districts,
     dominantAgeGroup |-> getDominantAgeGroup(data.age0_5, data.age5_17, data.age18Plus),
     intensity |-> "low"]

StateTotals(states) == [i \in 1..Len(states) |-> states[i].totalUpdates]

DistrictTotals(states) ==
    Flatten([i \in 1..Len(states) |->
                [j \in 1..Len(states[i].districts) |->
                    states[i].districts[j].totalUpdates]])

\* variant: sub-regions are classified against the region totals
ClassifyAllAgainstRegions(states) ==
    LET totals == StateTotals(states)
    IN  [i \in 1..Len(states) |->
            [states[i] EXCEPT
                !.intensity = calculateIntensity(states[i].totalUpdates, totals),
                !.districts =
                    [j \in 1..Len(states[i].districts) |->
                        [states[i].districts[j] EXCEPT !.intensity =
                            calculateIntensity(states[i].districts[j].totalUpdates,
                                               totals)]]]]

\* states.forEach(...) assigning the intensities (lines 405-413)
ClassifyAll(states) ==
    LET totals == StateTotals(states)
        districtTotals == DistrictTotals(states)
        Classified(d) ==
            [d EXCEPT !.intensity = calculateIntensity(d.totalUpdates, districtTotals)]
    IN  [i \in 1..Len(states) |->
            [states[i] EXCEPT
                !.intensity = calculateIntensity(states[i].totalUpdates, totals),
                !.districts =
                    [j \in 1..Len(states[i].districts) |->
                        Classified(states[i].districts[j])]]]

\* variant: the region totals are classified against once before the loop
ClassifyCallsWithProbe(states) ==
    << [value |-> 0, values |-> StateTotals(states)] >>
        \o Flatten([i \in 1..Len(states) |->
                << [value |-> states[i].totalUpdates, values |-> StateTotals(states)] >>
                    \o [j \in 1..Len(states[i].districts) |->
                           [value |-> states[i].districts[j].totalUpdates,
                            values |-> DistrictTotals(states)]]])

\* the calls of calculateIntensity made by states.forEach(...), in the order
\* they are made (lines 408-413)
ClassifyCalls(states) ==
    << >> \o Flatten([i \in 1..Len(states) |->
                << [value |-> states[i].totalUpdates, values |-> StateTotals(states)] >>
                    \o [j \in 1..Len(states[i].districts) |->
                           [value |-> states[i].districts[j].totalUpdates,
                            values |-> DistrictTotals(states)]]])

\* variant: every record is kept when none matches
FilterMonthOrAll(recs, month) ==
    IF SelectSeq(recs, LAMBDA r : r.Month = month) = <<>> THEN recs
    ELSE SelectSeq(recs, LAMBDA r : r.Month = month)

FilterMonth(recs, month) == SelectSeq(recs, LAMBDA r : r.Month = month)

aggregateByState(recs, month) ==
    LET filtered == FilterMonth(recs, month)
        stateMap == BuildStateMap(filtered)
        states == [i \in 1..Len(stateMap) |-> NewState(stateMap[i])]
    IN  SortByTotalDesc(ClassifyAll(states))

\* UTF-16 code units of the period strings, which Array.prototype.sort()
\* without a comparator orders by
CodeUnits(str) ==
    CASE str = "2024-01" -> <<50, 48, 50, 52, 45, 48, 49>>
      [] str = "2024-02" -> <<50, 48, 50, 52, 45, 48, 50>>
      [] str = "2024-10" -> <<50, 48, 50, 52, 45, 49, 48>>
      [] str = "2023-12" -> <<50, 48, 50, 51, 45, 49, 50>>
      [] str = "" -> <<>>

RECURSIVE LexLess(_, _)
LexLess(a, b) ==
    IF b = <<>> THEN FALSE
    ELSE IF a = <<>> THEN TRUE
    ELSE IF Head(a) # Head(b) THEN Head(a) < Head(b)
    ELSE LexLess(Tail(a), Tail(b))

\* new Set(...): the distinct values in order of first occurrence
RECURSIVE Distinct(_)
Distinct(s) ==
    IF s = <<>> THEN <<>>
    ELSE LET front == Distinct(SubSeq(s, 1, Len(s) - 1))
             last == s[Len(s)]
         IN  IF \E i \in 1..Len(front) : front[i] = last THEN front
             ELSE Append(front, last)

RECURSIVE InsertStr(_, _)
InsertStr(x, s) ==
    IF s = <<>> THEN <<x>>
    ELSE IF LexLess(CodeUnits(x), CodeUnits(Head(s))) THEN <<x>> \o s
         ELSE <<Head(s)>> \o InsertStr(x, Tail(s))

RECURSIVE SortStr(_)
SortStr(s) ==
    IF s = <<>> THEN <<>>
    ELSE InsertStr(s[Len(s)], SortStr(SubSeq(s, 1, Len(s) - 1)))

\* Array.prototype.reverse
RECURSIVE Reverse(_)
Reverse(s) ==
    IF s = <<>> THEN <<>> ELSE <<s[Len(s)]>> \o Reverse(SubSeq(s, 1, Len(s) - 1))

\* variant: the sorted periods are not reversed
getUniqueMonthsAscending(recs) ==
    SortStr(Distinct([i \in 1..Len(recs) |-> recs[i].Month]))

getUniqueMonths(recs) ==
    Reverse(SortStr(Distinct([i \in 1..Len(recs) |-> recs[i].Month])))

DigitChar == <<"0", "1", "2", "3", "4", "5", "6", "7", "8", "9">>

\* Number.prototype.toString() of a non-negative integer
RECURSIVE IntToString(_)
IntToString(n) ==
    IF n < 10 THEN DigitChar[n + 1]
    ELSE IntToString(n \div 10) \o DigitChar[(n % 10) + 1]

RECURSIVE PowMod(_, _, _)
PowMod(base, e, m) ==
    IF e = 0 THEN 1 % m ELSE (PowMod(base, e - 1, m) * base) % m

\* floor(log2(num / odd)) for num >= odd
RECURSIVE FloorLog2(_, _)
FloorLog2(num, odd) ==
    IF num < 2 * odd THEN 0 ELSE 1 + FloorLog2(num \div 2, odd)

\* Which side of the exact quotient num / (odd * 2^k) the double quotient lies
\* on: -1 below, 0 equal, 1 above.  The 53-bit significand of num / odd is
\* num * 2^e / odd rounded to nearest for e = 52 - floor(log2(num / odd)); it is
\* rounded up exactly when the remainder of num * 2^e by odd exceeds odd / 2.
DoubleQuotientSide(num, odd) ==
    LET e == 52 - FloorLog2(num, odd)
        r == ((num % odd) * PowMod(2, e, odd)) % odd
    IN  IF r = 0 THEN 0 ELSE IF 2 * r > odd THEN 1 ELSE -1

\* (num / div).toFixed(1): the n for which n / 10 is closest to the double
\* num / div, the larger n when two are equally close
ToFixed1(num, div, odd) ==
    LET tenths == (10 * num) \div div
        rest == (10 * num) % div
        up == IF 2 * rest # div THEN 2 * rest > div
              ELSE DoubleQuotientSide(num, odd) >= 0
        n == IF up THEN tenths + 1 ELSE tenths
    IN  IntToString(n \div 10) \o "." \o DigitChar[(n % 10) + 1]

\* variant: a count equal to a threshold stays in the lower form
formatNumberAboveOnly(num) ==
    IF num > 1000000 THEN ToFixed1(num, 1000000, 15625) \o "M"
    ELSE IF num > 1000 THEN ToFixed1(num, 1000, 125) \o "K"
    ELSE IntToString(num)

formatNumber(num) ==
    IF num >= 1000000 THEN ToFixed1(num, 1000000, 15625) \o "M"
    ELSE IF num >= 1000 THEN ToFixed1(num, 1000, 125) \o "K"
    ELSE IntToString(num)

(***************************************************************************)
(* Alerting                                                                *)
(***************************************************************************)

\* count / total > num / den in doubles; 0 / 0 is NaN and compares false
RatioAbove(count, total, num, den) ==
    total # 0 /\ count * den > num * total

\* (ratio * 100).toFixed(0): nearest integer, halves upwards (totals below 40,
\* where a half is met only by an exactly represented ratio)
PercentText(count, total) ==
    IntToString((200 * count + total) \div (2 * total))

\* variant: the three rules are tested independently of one another
DistrictAlertsEveryRule(state, district) ==
    LET total == district.totalUpdates
        Alert(text, severity) ==
            [state |-> state.state, district |-> district.district,
             alert |-> text, severity |-> severity]
    IN  (IF RatioAbove(district.age0_5, total, 4, 10)
         THEN << Alert("High child enrollment ("
                       \o PercentText(district.age0_5, total) \o "%)", "high") >>
         ELSE << >>)
        \o
        (IF RatioAbove(district.age18Plus, total, 75, 100)
         THEN << Alert("Adult-heavy updates ("
                       \o PercentText(district.age18Plus, total) \o "%)", "medium") >>
         ELSE << >>)
        \o
        (IF RatioAbove(district.age5_17, total, 35, 100)
         THEN << Alert("Youth surge detected ("
                       \o PercentText(district.age5_17, total) \o "%)", "medium") >>
         ELSE << >>)

\* the body of state.districts.forEach: the alerts pushed for one district
DistrictAlerts(state, district) ==
    LET total == district.totalUpdates
        Alert(text, severity) ==
            [state |-> state.state, district |-> district.district,
             alert |-> text, severity |-> severity]
    IN  IF RatioAbove(district.age0_5, total, 4, 10)
        THEN << Alert("High child enrollment ("
                      \o PercentText(district.age0_5, total) \o "%)", "high") >>
        ELSE IF RatioAbove(district.age18Plus, total, 75, 100)
        THEN << Alert("Adult-heavy updates ("
                      \o PercentText(district.age18Plus, total) \o "%)", "medium") >>
        ELSE IF RatioAbove(district.age5_17, total, 35, 100)
        THEN << Alert("Youth surge detected ("
                      \o PercentText(district.age5_17, total) \o "%)", "medium") >>
        ELSE << >>

AllAlerts(states) ==
    Flatten([i \in 1..Len(states) |->
                Flatten([j \in 1..Len(states[i].districts) |->
                            DistrictAlerts(states[i], states[i].districts[j])])])

\* variant: the alerts of severity high are moved to the front before the cut
getDemographicAlertsHighFirst(states) ==
    SliceTo(SelectSeq(AllAlerts(states), LAMBDA a : a.severity = "high")
            \o SelectSeq(AllAlerts(states), LAMBDA a : a.severity # "high"), 5)

getDemographicAlerts(states) == SliceTo(AllAlerts(states), 5)

(***************************************************************************)
(* Dashboard component                                                     *)
(***************************************************************************)

\* the page shows <LoadingSkeleton /> in place of the figures while loading
NotRendered == "<LoadingSkeleton />"

StateDataMemo(recs, month) ==
    IF month = "" THEN <<>> ELSE aggregateByState(recs, month)

SummaryStatsMemo(states) ==
    [totalUpdates |-> SumSeq(StateTotals(states)),
     totalStates |-> Len(states),
     totalDistricts |-> SumSeq([i \in 1..Len(states) |-> Len(states[i].districts)]),
     highActivityCount |->
         Len(SelectSeq(Flatten([i \in 1..Len(states) |-> states[i].districts]),
                       LAMBDA d : d.intensity = "high"))]

\* the derived values of one render
Render(recs, month, loading) ==
    /\ stateData' = StateDataMemo(recs, month)
    /\ summaryStats' = SummaryStatsMemo(StateDataMemo(recs, month))
    /\ totalText' = IF loading THEN NotRendered
                    ELSE formatNumber(SummaryStatsMemo(StateDataMemo(recs, month)).totalUpdates)

DashboardInit ==
    /\ records = <<>>
    /\ selectedMonth = ""
    /\ isLoading = TRUE
    /\ stateData = <<>>
    /\ summaryStats = SummaryStatsMemo(<<>>)
    /\ totalText = NotRendered

Init ==
    /\ DashboardInit
    /\ fn = "none"
    /\ arg = <<>>
    /\ ret = Pending

\* the fetch('/data.csv') callback of the first effect; parsed is what parseCSV
\* returned
LoadData ==
    /\ isLoading
    /\ \E parsed \in RecordLists :
          LET months == getUniqueMonths(parsed)
              month == IF months # <<>> THEN months[1] ELSE ""
          IN  /\ records' = parsed
              /\ selectedMonth' = month
              /\ isLoading' = FALSE
              /\ Render(parsed, month, FALSE)
    /\ UNCHANGED callVars

\* onMonthChange = setSelectedMonth.  MonthSelector is not among the sources;
\* the setter takes any period string.
SelectMonth ==
    /\ ~isLoading
    /\ \E m \in Months :
          /\ selectedMonth' = m
          /\ Render(records, m, FALSE)
    /\ UNCHANGED <<records, isLoading, callVars>>

Next == LoadData \/ SelectMonth

Spec == Init /\ [][Next]_vars

(***************************************************************************)
(* Calls of the exported functions on their own                            *)
(***************************************************************************)

\* largest value and longest reference array given to calculateIntensity
MaxValue == 3

MaxRefLen == 4

InitClassify ==
    /\ DashboardInit
    /\ fn = "calculateIntensity"
    /\ arg \in [value : 0..MaxValue, values : SeqsUpTo(0..MaxValue, MaxRefLen)]
    /\ ret = Pending

CallCalculateIntensity ==
    /\ fn = "calculateIntensity"
    /\ ret = Pending
    /\ ret' = calculateIntensity(arg.value, arg.values)
    /\ arg' = [arg EXCEPT !.values = SortSpreadCopy(arg.values).values]
    /\ UNCHANGED <<dashVars, fn>>

SpecClassify == InitClassify /\ [][CallCalculateIntensity]_vars

\* rows for the alert rules: low bracket above 0.40 (and mid above 0.35), high
\* bracket above 0.75, mid bracket above 0.35 only, no ratio above its
\* threshold, and a row without updates
AlertRows ==
    { [District |-> "Patna",   Age_0_5 |-> 1, Age_5_17 |-> 1, Age_18_plus |-> 0],
      [District |-> "Gaya",    Age_0_5 |-> 0, Age_5_17 |-> 0, Age_18_plus |-> 1],
      [District |-> "Nalanda", Age_0_5 |-> 0, Age_5_17 |-> 1, Age_18_plus |-> 1],
      [District |-> "Saran",   Age_0_5 |-> 1, Age_5_17 |-> 1, Age_18_plus |-> 2],
      [District |-> "Siwan",   Age_0_5 |-> 0, Age_5_17 |-> 0, Age_18_plus |-> 0] }

\* the rows of the long lists: severity high, severity medium, no alert
LongAlertRows ==
    { row \in AlertRows : row.District \in {"Patna", "Gaya", "Saran"} }

AlertStates == {"Bihar", "Goa"}

\* longest list over all the alert rows
MaxAlertRecords == 3

\* length of the lists that can produce more alerts than are returned
LongAlertRecords == 6

\* two regions of two sub-regions, one of them with a low-bracket ratio of 0.45
EndToEndRecords ==
    << [Month |-> "2024-01", State |-> "Bihar", District |-> "Patna",
        Age_0_5 |-> 9, Age_5_17 |-> 5, Age_18_plus |-> 6],
       [Month |-> "2024-01", State |-> "Bihar", District |-> "Gaya",
        Age_0_5 |-> 3, Age_5_17 |-> 4, Age_18_plus |-> 13],
       [Month |-> "2024-01", State |-> "Goa", District |-> "North Goa",
        Age_0_5 |-> 2, Age_5_17 |-> 3, Age_18_plus |-> 5],
       [Month |-> "2024-01", State |-> "Goa", District |-> "South Goa",
        Age_0_5 |-> 4, Age_5_17 |-> 6, Age_18_plus |-> 10] >>

AlertRecordLists ==
    SeqsUpTo({ AadhaarRecord("2024-01", st, row) : st \in AlertStates, row \in AlertRows },
             MaxAlertRecords)
    \cup [1..LongAlertRecords ->
            { AadhaarRecord("2024-01", st, row) : st \in AlertStates, row \in LongAlertRows }]
    \cup {EndToEndRecords}

\* the region summaries handed to getDemographicAlerts are results of
\* aggregateByState
InitAlerts ==
    /\ DashboardInit
    /\ fn = "getDemographicAlerts"
    /\ arg \in { aggregateByState(recs, "2024-01") : recs \in AlertRecordLists }
    /\ ret = Pending

CallGetDemographicAlerts ==
    /\ fn = "getDemographicAlerts"
    /\ ret = Pending
    /\ ret' = getDemographicAlerts(arg)
    /\ UNCHANGED <<dashVars, fn, arg>>

SpecAlerts == InitAlerts /\ [][CallGetDemographicAlerts]_vars

(***************************************************************************)
(* Properties of the region summaries                                      *)
(***************************************************************************)

\* every sub-region summary of the current result, in traversal order
AllDistricts(states) == Flatten([i \in 1..Len(states) |-> states[i].districts])

\* positions of the records of the selected period
Matching == { k \in 1..Len(records) : records[k].Month = selectedMonth }

\* positions of the records of the selected period and of one region
MatchingIn(name) == { k \in Matching : records[k].State = name }

\* C1: every sub-region summary returned by aggregateByState has a total equal
\* to the sum of its own three bracket counts.
C1_SubRegionTotalIsSum ==
    \A i \in 1..Len(stateData) :
        \A j \in 1..Len(stateData[i].districts) :
            LET d == stateData[i].districts[j]
            IN  d.totalUpdates = d.age0_5 + d.age5_17 + d.age18Plus

C1_Witness ==
    /\ Len(AllDistricts(stateData)) >= 3
    /\ \E i \in 1..Len(stateData) :
          \E j \in 1..Len(stateData[i].districts) :
              LET d == stateData[i].districts[j]
              IN  d.age0_5 > 0 /\ d.age5_17 > 0 /\ d.totalUpdates = 3

\* C2: every region summary has each bracket count equal to the sum of that
\* count over the sub-region summaries in its own list, and a total equal to
\* the sum of its three bracket counts.
C2_RegionCountsAreSums ==
    \A i \in 1..Len(stateData) :
        LET s == stateData[i]
            n == Len(s.districts)
        IN  /\ s.age0_5 = SumSeq([j \in 1..n |-> s.districts[j].age0_5])
            /\ s.age5_17 = SumSeq([j \in 1..n |-> s.districts[j].age5_17])
            /\ s.age18Plus = SumSeq([j \in 1..n |-> s.districts[j].age18Plus])
            /\ s.totalUpdates = s.age0_5 + s.age5_17 + s.age18Plus

C2_Witness ==
    \E i \in 1..Len(stateData) :
        /\ Len(stateData[i].districts) >= 2
        /\ stateData[i].age0_5 = 3
        /\ stateData[i].age5_17 = 3
        /\ stateData[i].age18Plus = 1

\* position of the first record of the selected period that names the region
FirstSeen(name) ==
    CHOOSE k \in MatchingIn(name) : \A other \in MatchingIn(name) : k <= other

\* C3: the region summaries are in descending order of total, and regions with
\* equal totals are in the order in which they first appear among the records
\* of the period.
C3_SortedDescendingStable ==
    \A i \in 1..Len(stateData) :
        \A j \in (i + 1)..Len(stateData) :
            \/ stateData[i].totalUpdates > stateData[j].totalUpdates
            \/ /\ stateData[i].totalUpdates = stateData[j].totalUpdates
               /\ FirstSeen(stateData[i].state) < FirstSeen(stateData[j].state)

C3_Witness ==
    /\ Len(stateData) = 3
    /\ stateData[1].totalUpdates > stateData[2].totalUpdates
    /\ stateData[2].totalUpdates = stateData[3].totalUpdates
    /\ FirstSeen(stateData[1].state) > FirstSeen(stateData[3].state)

\* C4: every sub-region's intensity is the classification of its total against
\* the totals of all sub-region summaries of the period, and every region's
\* intensity is the classification of its total against the totals of all
\* regions of the period.
C4_IntensityPerLevel ==
    \A i \in 1..Len(stateData) :
        /\ stateData[i].intensity =
               calculateIntensity(stateData[i].totalUpdates, StateTotals(stateData))
        /\ \A j \in 1..Len(stateData[i].districts) :
               stateData[i].districts[j].intensity =
                   calculateIntensity(stateData[i].districts[j].totalUpdates,
                                      DistrictTotals(stateData))

C4_Witness ==
    /\ \E i \in 1..Len(stateData) : stateData[i].intensity = "medium"
    /\ \E i \in 1..Len(stateData) :
          \E j \in 1..Len(stateData[i].districts) :
              LET d == stateData[i].districts[j]
              IN  /\ d.intensity = "high"
                  /\ calculateIntensity(d.totalUpdates, StateTotals(stateData)) = "low"

\* largest count of the triples the label is compared on directly
MaxLabelCount == 3

\* the label the claim gives to (low, mid, high) counts
DominantBracket(low, mid, high) ==
    IF high >= low /\ high >= mid THEN "Adult (18+)"
    ELSE IF mid >= low THEN "Youth (5-17)"
    ELSE "Child (0-5)"

\* C6: the dominant-bracket label is Adult when the high count is the maximum,
\* otherwise Youth when the mid count is the maximum, otherwise Child; each
\* sub-region carries the label of its own counts and each region the label of
\* its summed counts.
C6_DominantBracket ==
    /\ getDominantAgeGroup(10, 10, 10) = "Adult (18+)"
    /\ getDominantAgeGroup(5, 10, 10) = "Adult (18+)"
    /\ getDominantAgeGroup(10, 10, 5) = "Youth (5-17)"
    /\ getDominantAgeGroup(10, 5, 5) = "Child (0-5)"
    /\ \A low \in 0..MaxLabelCount, mid \in 0..MaxLabelCount, high \in 0..MaxLabelCount :
          getDominantAgeGroup(low, mid, high) = DominantBracket(low, mid, high)
    /\ \A i \in 1..Len(stateData) :
          LET s == stateData[i]
          IN  /\ s.dominantAgeGroup =
                     DominantBracket(
                         SumSeq([j \in 1..Len(s.districts) |-> s.districts[j].age0_5]),
                         SumSeq([j \in 1..Len(s.districts) |-> s.districts[j].age5_17]),
                         SumSeq([j \in 1..Len(s.districts) |-> s.districts[j].age18Plus]))
              /\ \A j \in 1..Len(s.districts) :
                     s.districts[j].dominantAgeGroup =
                         DominantBracket(s.districts[j].age0_5, s.districts[j].age5_17,
                                         s.districts[j].age18Plus)

C6_Witness ==
    \E i \in 1..Len(stateData) :
        LET s == stateData[i]
        IN  /\ s.dominantAgeGroup = "Youth (5-17)"
            /\ s.age0_5 = s.age5_17
            /\ \E j \in 1..Len(s.districts) :
                   s.districts[j].dominantAgeGroup = "Child (0-5)"
            /\ \E j \in 1..Len(s.districts) :
                   /\ s.districts[j].dominantAgeGroup = "Adult (18+)"
                   /\ s.districts[j].age5_17 = s.districts[j].age18Plus

\* the j-th smallest element of a set of positions
NthOf(S, j) == CHOOSE k \in S : Cardinality({ x \in S : x < k }) = j - 1

\* C7: there is exactly one sub-region summary for each record of the selected
\* period and none for any other record; each carries the name and counts of
\* its own row, and within a region the summaries are in input order.
C7_OneSummaryPerMatchingRecord ==
    /\ Len(AllDistricts(stateData)) = Cardinality(Matching)
    /\ \A i \in 1..Len(stateData) :
          LET s == stateData[i]
              rows == MatchingIn(s.state)
          IN  /\ Len(s.districts) = Cardinality(rows)
              /\ \A j \in 1..Len(s.districts) :
                     LET d == s.districts[j]
                         r == records[NthOf(rows, j)]
                     IN  /\ d.district = r.District
                         /\ d.state = r.State
                         /\ d.age0_5 = r.Age_0_5
                         /\ d.age5_17 = r.Age_5_17
                         /\ d.age18Plus = r.Age_18_plus

C7_Witness ==
    /\ Len(records) = 3
    /\ Cardinality(Matching) = 2
    /\ Len(stateData) = 1
    /\ Len(stateData[1].districts) = 2
    /\ stateData[1].districts[1].district = stateData[1].districts[2].district
    /\ stateData[1].districts[1].age0_5 # stateData[1].districts[2].age0_5
    /\ records[2].Month # selectedMonth

\* C8: when no record carries the selected period (the empty selection
\* included) the region summaries are the empty sequence and the total-updates
\* figure is shown as "0".
C8_EmptyPeriod ==
    (~isLoading /\ Matching = {}) =>
        /\ stateData = <<>>
        /\ summaryStats.totalUpdates = 0
        /\ totalText = "0"

C8_Witness ==
    /\ ~isLoading
    /\ Matching = {}
    /\ Len(records) = 3
    /\ selectedMonth \in Months
    /\ totalText = "0"

(***************************************************************************)
(* Properties of calculateIntensity                                        *)
(***************************************************************************)

\* floor(pct / 100 * n)
FloorOfShare(pct, n) ==
    CHOOSE k \in 0..n : 100 * k <= pct * n /\ pct * n < 100 * (k + 1)

\* the element at 0-based index k of the values in ascending order: at most k
\* values lie below it, more than k do not lie above it
ElementAtRank(values, k) ==
    CHOOSE x \in { values[i] : i \in 1..Len(values) } :
        /\ Cardinality({ i \in 1..Len(values) : values[i] < x }) <= k
        /\ Cardinality({ i \in 1..Len(values) : values[i] <= x }) > k

Cut33(values) == ElementAtRank(values, FloorOfShare(33, Len(values)))

Cut66(values) == ElementAtRank(values, FloorOfShare(66, Len(values)))

\* C5: for a non-empty reference sequence calculateIntensity returns low for a
\* value up to the element at index floor(0.33 * length) of the sorted
\* sequence, otherwise medium for a value up to the element at index
\* floor(0.66 * length), otherwise high; a value equal to a cut point falls in
\* the lower bucket.
C5_ClassifyByCutPoints ==
    (fn = "calculateIntensity" /\ ret # Pending /\ arg.values # <<>>) =>
        ret = IF arg.value <= Cut33(arg.values) THEN "low"
              ELSE IF arg.value <= Cut66(arg.values) THEN "medium"
              ELSE "high"

C5_Witness ==
    /\ fn = "calculateIntensity"
    /\ Len(arg.values) = 4
    /\ arg.values[1] > arg.values[2]
    /\ arg.values[2] < arg.values[4]
    /\ Cut33(arg.values) < Cut66(arg.values)
    /\ arg.value = Cut66(arg.values)
    /\ ret = "medium"

(***************************************************************************)
(* Properties of getDemographicAlerts                                      *)
(***************************************************************************)

\* the severity the rules give a sub-region, "none" when no rule matches
RuleSeverity(d) ==
    IF d.totalUpdates # 0 /\ 100 * d.age0_5 > 40 * d.totalUpdates THEN "high"
    ELSE IF d.totalUpdates # 0 /\ 100 * d.age18Plus > 75 * d.totalUpdates THEN "medium"
    ELSE IF d.totalUpdates # 0 /\ 100 * d.age5_17 > 35 * d.totalUpdates THEN "medium"
    ELSE "none"

\* the sub-regions that a rule matches, in region / sub-region traversal order,
\* each with the severity of its first matching rule
ExpectedAlerts(states) ==
    LET hit == SelectSeq(AllDistricts(states), LAMBDA d : RuleSeverity(d) # "none")
    IN  [k \in 1..Len(hit) |->
            [state |-> hit[k].state, district |-> hit[k].district,
             severity |-> RuleSeverity(hit[k])]]

WithoutText(alerts) ==
    [k \in 1..Len(alerts) |->
        [state |-> alerts[k].state, district |-> alerts[k].district,
         severity |-> alerts[k].severity]]

\* C9: the alerts returned are, one for one and in order, sub-regions matched by
\* a rule, each with the severity of its first matching rule (low bracket above
\* 0.40: high; else high bracket above 0.75: medium; else mid bracket above
\* 0.35: medium); with at most five sub-regions every matched sub-region has its
\* alert and no other sub-region has one.  For the four sub-regions of the
\* end-to-end scenario the result is the single high alert of the sub-region
\* with ratio 0.45.
C9_FirstMatchingRule ==
    (fn = "getDemographicAlerts" /\ ret # Pending) =>
        /\ Len(ret) <= Len(ExpectedAlerts(arg))
        /\ WithoutText(ret) = SubSeq(ExpectedAlerts(arg), 1, Len(ret))
        /\ (Len(AllDistricts(arg)) <= 5 => Len(ret) = Len(ExpectedAlerts(arg)))
        /\ (arg = aggregateByState(EndToEndRecords, "2024-01") =>
               ret = << [state |-> "Bihar", district |-> "Patna",
                         alert |-> "High child enrollment (45%)",
                         severity |-> "high"] >>)

C9_Witness ==
    /\ fn = "getDemographicAlerts"
    /\ ret # Pending
    /\ Len(AllDistricts(arg)) = 3
    /\ \E i \in 1..Len(arg) :
          \E j \in 1..Len(arg[i].districts) :
              LET d == arg[i].districts[j]
              IN  /\ RuleSeverity(d) = "high"
                  /\ 100 * d.age5_17 > 35 * d.totalUpdates
    /\ \E k \in 1..Len(ret) : ret[k].severity = "medium"
    /\ Len(ret) = 2

C9_ScenarioWitness ==
    /\ fn = "getDemographicAlerts"
    /\ arg = aggregateByState(EndToEndRecords, "2024-01")
    /\ Len(ret) = 1

\* C10: at most 5 alerts are returned, and they are the first 5 (or all, when
\* there are fewer) of the alerts produced in region / sub-region traversal
\* order, not reordered by severity.
C10_FirstFiveInTraversalOrder ==
    (fn = "getDemographicAlerts" /\ ret # Pending) =>
        /\ Len(ret) <= 5
        /\ Len(ret) = IF Len(ExpectedAlerts(arg)) < 5 THEN Len(ExpectedAlerts(arg)) ELSE 5
        /\ \A k \in 1..Len(ret) : WithoutText(ret)[k] = ExpectedAlerts(arg)[k]

C10_Witness ==
    /\ fn = "getDemographicAlerts"
    /\ ret # Pending
    /\ Len(arg) = 2
    /\ Len(ExpectedAlerts(arg)) = 6
    /\ Len(ret) = 5
    /\ ret[1].severity = "medium"
    /\ ret[2].severity = "high"
    /\ ExpectedAlerts(arg)[6].severity = "high"

(***************************************************************************)
(* getTopDistricts                                                         *)
(***************************************************************************)

\* an optional parameter is the sequence of the values given for it: empty when
\* the caller leaves it out
Given(optional, default) == IF optional = <<>> THEN default ELSE optional[1]

\* variant: the list is cut before it is sorted
getTopDistrictsCutFirst(states, limit) ==
    SortByTotalDesc(
        SliceTo(Flatten([i \in 1..Len(states) |-> states[i].districts]),
                Given(limit, 5)))

\* limit: number = 5
getTopDistricts(states, limit) ==
    SliceTo(SortByTotalDesc(Flatten([i \in 1..Len(states) |-> states[i].districts])),
            Given(limit, 5))

\* longest record list behind the region summaries given to getTopDistricts
MaxTopRecords == 4

\* largest limit given to getTopDistricts
MaxLimit == 3

TopRecordLists ==
    SeqsUpTo({ AadhaarRecord("2024-01", st, row) :
                   st \in {"Bihar", "Goa"}, row \in SubRegionRows },
             MaxTopRecords)

InitTop ==
    /\ DashboardInit
    /\ fn = "getTopDistricts"
    /\ arg \in [states : { aggregateByState(recs, "2024-01") : recs \in TopRecordLists },
                limit : SeqsUpTo(0..MaxLimit, 1)]
    /\ ret = Pending

CallGetTopDistricts ==
    /\ fn = "getTopDistricts"
    /\ ret = Pending
    /\ ret' = getTopDistricts(arg.states, arg.limit)
    /\ UNCHANGED <<dashVars, fn, arg>>

SpecTop == InitTop /\ [][CallGetTopDistricts]_vars

\* place of the p-th sub-region of the flattened list in the descending order
\* that keeps sub-regions of equal total in their flattened order
RankByTotal(flat, p) ==
    1 + Cardinality({ q \in 1..Len(flat) :
                        \/ flat[q].totalUpdates > flat[p].totalUpdates
                        \/ flat[q].totalUpdates = flat[p].totalUpdates /\ q < p })

\* C11: getTopDistricts returns the first min(limit, n) of the n flattened
\* sub-region summaries in descending order of total, sub-regions of equal total
\* in the order of the region-by-region traversal.
C11_TopSubRegions ==
    (fn = "getTopDistricts" /\ ret # Pending) =>
        LET flat == AllDistricts(arg.states)
            limit == IF arg.limit = <<>> THEN 5 ELSE arg.limit[1]
        IN  /\ Len(ret) = IF limit < Len(flat) THEN limit ELSE Len(flat)
            /\ \A p \in 1..Len(flat) :
                   RankByTotal(flat, p) <= Len(ret) => ret[RankByTotal(flat, p)] = flat[p]

C11_Witness ==
    /\ fn = "getTopDistricts"
    /\ ret # Pending
    /\ arg.limit = <<3>>
    /\ Len(AllDistricts(arg.states)) = 4
    /\ AllDistricts(arg.states)[1].totalUpdates < AllDistricts(arg.states)[4].totalUpdates
    /\ ret[2].totalUpdates = ret[3].totalUpdates
    /\ ret[2].district # ret[3].district
    /\ AllDistricts(arg.states)[2].totalUpdates = AllDistricts(arg.states)[3].totalUpdates

(***************************************************************************)
(* generateRecommendations                                                 *)
(***************************************************************************)

MonthNames ==
    << "January", "February", "March", "April", "May", "June", "July",
       "August", "September", "October", "November", "December" >>

\* the decimal integer read from the code units of a run of digits
RECURSIVE ParseDigits(_)
ParseDigits(units) ==
    IF units = << >> THEN 0
    ELSE 10 * ParseDigits(SubSeq(units, 1, Len(units) - 1)) + (units[Len(units)] - 48)

\* formatMonth of a "YYYY-MM" string with MM in 01..12: the parts around the
\* first '-' (code unit 45), the month name of the en-US locale, the year
formatMonth(monthStr) ==
    LET units == CodeUnits(monthStr)
        dash == CHOOSE k \in 1..Len(units) :
                    units[k] = 45 /\ \A h \in 1..(k - 1) : units[h] # 45
        year == ParseDigits(SubSeq(units, 1, dash - 1))
        month == ParseDigits(SubSeq(units, dash + 1, Len(units)))
    IN  MonthNames[(month - 1) + 1] \o " " \o IntToString(year)

\* (total / (sum / count)).toFixed(1) in tenths: the nearest tenth, the larger
\* on a half (the double quotient rounds as the exact one for region sums
\* below 20 and for the sums and counts of the record lists below)
MultiplierTenths(total, sum, count) ==
    (20 * total * count + sum) \div (2 * sum)

MultiplierText(tenths) ==
    IntToString(tenths \div 10) \o "." \o DigitChar[(tenths % 10) + 1]

\* total > (sum / count) * factor for factor = num / 2, in doubles (equal to
\* the exact comparison for sums below 600 and up to 19 sub-regions)
AboveAverage(total, sum, count, num) ==
    count # 0 /\ 2 * total * count > num * sum

\* variant: the severity threshold is the capacity threshold
SeverityOfCapacity(total, sum, count) ==
    IF AboveAverage(total, sum, count, 3) THEN "high" ELSE "medium"

\* district.totalUpdates > avgTotal * 2 ? 'high' : 'medium'
SeverityOf(total, sum, count) ==
    IF AboveAverage(total, sum, count, 4) THEN "high" ELSE "medium"

\* the en dash of the source's '~25(en dash)35%' and '~15(en dash)20%' is
\* written as a hyphen
ExpectedImpactOf(total, sum, count) ==
    IF AboveAverage(total, sum, count, 4) THEN "~25-35% load normalization"
    ELSE "~15-20% efficiency improvement"

\* variant: a multiplier of 1.5 is cited as well
ReasonsOfFromOneAndAHalf(state, district) ==
    LET total == district.totalUpdates
        sum == SumSeq([j \in 1..Len(state.districts) |-> state.districts[j].totalUpdates])
        tenths == MultiplierTenths(total, sum, Len(state.districts))
    IN  (IF sum # 0 /\ tenths >= 15
         THEN << MultiplierText(tenths) \o "× state median update volume" >>
         ELSE << >>)
        \o (IF RatioAbove(district.age18Plus, total, 65, 100)
            THEN << "Adult-heavy demographic skew" >> ELSE << >>)
        \o (IF RatioAbove(district.age0_5, total, 25, 100)
            THEN << "High child enrollment activity" >> ELSE << >>)
        \o (IF RatioAbove(district.age5_17, total, 3, 10)
            THEN << "Youth update surge" >> ELSE << >>)

\* reasons of one sub-region, in the order the rules are tested
ReasonsOf(state, district) ==
    LET total == district.totalUpdates
        sum == SumSeq([j \in 1..Len(state.districts) |-> state.districts[j].totalUpdates])
        tenths == MultiplierTenths(total, sum, Len(state.districts))
    IN  (IF sum # 0 /\ tenths > 15
         THEN << MultiplierText(tenths) \o "× state median update volume" >>
         ELSE << >>)
        \o (IF RatioAbove(district.age18Plus, total, 65, 100)
            THEN << "Adult-heavy demographic skew" >> ELSE << >>)
        \o (IF RatioAbove(district.age0_5, total, 25, 100)
            THEN << "High child enrollment activity" >> ELSE << >>)
        \o (IF RatioAbove(district.age5_17, total, 3, 10)
            THEN << "Youth update surge" >> ELSE << >>)

\* variant: the ratio rules exclude one another, as the alert rules do
ActionsOfFirstMatch(district, sum, count) ==
    LET total == district.totalUpdates
    IN  (IF RatioAbove(district.age18Plus, total, 65, 100)
         THEN << "Extended update windows",
                 "Priority processing for biometric updates" >>
         ELSE IF RatioAbove(district.age0_5, total, 25, 100)
         THEN << "School-based enrollment camps", "Parent awareness campaigns" >>
         ELSE IF RatioAbove(district.age5_17, total, 3, 10)
         THEN << "College enrollment integration" >>
         ELSE << >>)
        \o (IF AboveAverage(total, sum, count, 3)
            THEN << "Temporary capacity expansion", "Targeted awareness campaigns" >>
            ELSE << >>)

\* variant: the capacity actions start at three times the average
ActionsOfAboveTriple(district, sum, count) ==
    LET total == district.totalUpdates
    IN  (IF RatioAbove(district.age18Plus, total, 65, 100)
         THEN << "Extended update windows",
                 "Priority processing for biometric updates" >>
         ELSE << >>)
        \o (IF RatioAbove(district.age0_5, total, 25, 100)
            THEN << "School-based enrollment camps", "Parent awareness campaigns" >>
            ELSE << >>)
        \o (IF RatioAbove(district.age5_17, total, 3, 10)
            THEN << "College enrollment integration" >> ELSE << >>)
        \o (IF AboveAverage(total, sum, count, 6)
            THEN << "Temporary capacity expansion", "Targeted awareness campaigns" >>
            ELSE << >>)

\* actions of one sub-region; sum and count are those of all sub-regions
ActionsOf(district, sum, count) ==
    LET total == district.totalUpdates
    IN  (IF RatioAbove(district.age18Plus, total, 65, 100)
         THEN << "Extended update windows",
                 "Priority processing for biometric updates" >>
         ELSE << >>)
        \o (IF RatioAbove(district.age0_5, total, 25, 100)
            THEN << "School-based enrollment camps", "Parent awareness campaigns" >>
            ELSE << >>)
        \o (IF RatioAbove(district.age5_17, total, 3, 10)
            THEN << "College enrollment integration" >> ELSE << >>)
        \o (IF AboveAverage(total, sum, count, 3)
            THEN << "Temporary capacity expansion", "Targeted awareness campaigns" >>
            ELSE << >>)

\* what the body of the inner forEach pushes for one sub-region
DistrictRecommendations(state, district, sum, count, month) ==
    LET reasons == ReasonsOf(state, district)
        actions == ActionsOf(district, sum, count)
    IN  IF Len(reasons) > 0
        THEN << [severity |-> SeverityOf(district.totalUpdates, sum, count),
                 location |-> district.district \o ", " \o state.state,
                 month |-> formatMonth(month),
                 reasons |-> reasons,
                 actions |-> IF Len(actions) > 0 THEN actions
                             ELSE << "Monitor situation closely" >>,
                 expectedImpact |->
                     ExpectedImpactOf(district.totalUpdates, sum, count)] >>
        ELSE << >>

IsHigh(district) == district.intensity = "high"

\* variant: every sub-region of the region is considered
HighDistrictsUnfiltered(state) == state.districts

\* state.districts.filter(d => d.intensity === 'high')
HighDistricts(state) == SelectSeq(state.districts, IsHigh)

\* the recommendations array before it is sorted: regions in list order,
\* the high sub-regions of each in list order
ProducedRecommendations(states, month) ==
    LET allDistricts == Flatten([i \in 1..Len(states) |-> states[i].districts])
        sum == SumSeq([p \in 1..Len(allDistricts) |-> allDistricts[p].totalUpdates])
        count == Len(allDistricts)
        OfState(state) ==
            LET high == HighDistricts(state)
            IN  Flatten([j \in 1..Len(high) |->
                            DistrictRecommendations(state, high[j], sum, count, month)])
    IN  Flatten([i \in 1..Len(states) |-> OfState(states[i])])

\* Array.prototype.sort with (b high ? 1 : 0) - (a high ? 1 : 0): stable, an
\* element moves before those that are not high only when it is high
RECURSIVE InsertBySeverity(_, _)
InsertBySeverity(x, s) ==
    IF s = << >> THEN <<x>>
    ELSE IF x.severity = "high" /\ Head(s).severity # "high" THEN <<x>> \o s
         ELSE <<Head(s)>> \o InsertBySeverity(x, Tail(s))

RECURSIVE SortBySeverity(_)
SortBySeverity(s) ==
    IF s = << >> THEN << >>
    ELSE InsertBySeverity(s[Len(s)], SortBySeverity(SubSeq(s, 1, Len(s) - 1)))

\* variant: the list is cut before it is sorted
generateRecommendationsCutFirst(states, month) ==
    SortBySeverity(SliceTo(ProducedRecommendations(states, month), 4))

generateRecommendations(states, month) ==
    SliceTo(SortBySeverity(ProducedRecommendations(states, month)), 4)

RecRows ==
    { [District |-> "Siwan",   Age_0_5 |-> 0, Age_5_17 |-> 0, Age_18_plus |-> 1],
      [District |-> "Gaya",    Age_0_5 |-> 0, Age_5_17 |-> 1, Age_18_plus |-> 1],
      [District |-> "Patna",   Age_0_5 |-> 1, Age_5_17 |-> 1, Age_18_plus |-> 2],
      [District |-> "Saran",   Age_0_5 |-> 2, Age_5_17 |-> 2, Age_18_plus |-> 0],
      [District |-> "Nalanda", Age_0_5 |-> 0, Age_5_17 |-> 1, Age_18_plus |-> 3] }

RecStates == {"Bihar", "Goa"}

\* longest list over all the rows
MaxRecRecords == 4

\* the long lists: SlotRecords records that each choose a region and one of two
\* rows, then FillerRecords records of total 1 that alternate between the regions
SlotRecords == 5
FillerRecords == 10

SlotRows ==
    { [Age_0_5 |-> 0, Age_5_17 |-> 2, Age_18_plus |-> 2],
      [Age_0_5 |-> 0, Age_5_17 |-> 0, Age_18_plus |-> 7] }

BlockRecord(k, st, row) ==
    [Month |-> "2024-01", State |-> st, District |-> "Block " \o IntToString(k),
     Age_0_5 |-> row.Age_0_5, Age_5_17 |-> row.Age_5_17,
     Age_18_plus |-> row.Age_18_plus]

LongRecLists ==
    { [k \in 1..(SlotRecords + FillerRecords) |->
          IF k <= SlotRecords THEN BlockRecord(k, choice[k].st, choice[k].row)
          ELSE BlockRecord(k, IF k % 2 = 1 THEN "Bihar" ELSE "Goa",
                           [Age_0_5 |-> 0, Age_5_17 |-> 0, Age_18_plus |-> 1])] :
      choice \in [1..SlotRecords -> [st : RecStates, row : SlotRows]] }

\* six sub-regions of mean total 100, two of them of totals 250 and 180
Average100Records ==
    << [Month |-> "2024-01", State |-> "Bihar", District |-> "Patna",
        Age_0_5 |-> 100, Age_5_17 |-> 50, Age_18_plus |-> 100],
       [Month |-> "2024-01", State |-> "Bihar", District |-> "Gaya",
        Age_0_5 |-> 72, Age_5_17 |-> 36, Age_18_plus |-> 72],
       [Month |-> "2024-01", State |-> "Goa", District |-> "North Goa",
        Age_0_5 |-> 10, Age_5_17 |-> 10, Age_18_plus |-> 30],
       [Month |-> "2024-01", State |-> "Goa", District |-> "South Goa",
        Age_0_5 |-> 10, Age_5_17 |-> 10, Age_18_plus |-> 20],
       [Month |-> "2024-01", State |-> "Kerala", District |-> "Idukki",
        Age_0_5 |-> 10, Age_5_17 |-> 10, Age_18_plus |-> 20],
       [Month |-> "2024-01", State |-> "Kerala", District |-> "Wayanad",
        Age_0_5 |-> 10, Age_5_17 |-> 10, Age_18_plus |-> 20] >>

\* three sub-regions above 1.5 times the mean total: one not high, one high
\* that meets no reason rule, one high that meets one
SkippedRecords ==
    << [Month |-> "2024-01", State |-> "Bihar", District |-> "Patna",
        Age_0_5 |-> 3, Age_5_17 |-> 3, Age_18_plus |-> 0],
       [Month |-> "2024-01", State |-> "Bihar", District |-> "Gaya",
        Age_0_5 |-> 1, Age_5_17 |-> 2, Age_18_plus |-> 4],
       [Month |-> "2024-01", State |-> "Bihar", District |-> "Nalanda",
        Age_0_5 |-> 0, Age_5_17 |-> 0, Age_18_plus |-> 8],
       [Month |-> "2024-01", State |-> "Goa", District |-> "North Goa",
        Age_0_5 |-> 0, Age_5_17 |-> 0, Age_18_plus |-> 0],
       [Month |-> "2024-01", State |-> "Goa", District |-> "South Goa",
        Age_0_5 |-> 0, Age_5_17 |-> 0, Age_18_plus |-> 0],
       [Month |-> "2024-01", State |-> "Kerala", District |-> "Idukki",
        Age_0_5 |-> 0, Age_5_17 |-> 0, Age_18_plus |-> 0] >>

\* a high sub-region of 1.6 times the mean total of its region that meets no
\* ratio rule and lies below 1.5 times the mean total of all sub-regions
MonitorRecords ==
    << [Month |-> "2024-01", State |-> "Bihar", District |-> "Patna",
        Age_0_5 |-> 1, Age_5_17 |-> 1, Age_18_plus |-> 2],
       [Month |-> "2024-01", State |-> "Bihar", District |-> "Siwan",
        Age_0_5 |-> 0, Age_5_17 |-> 0, Age_18_plus |-> 1],
       [Month |-> "2024-01", State |-> "Goa", District |-> "North Goa",
        Age_0_5 |-> 1, Age_5_17 |-> 1, Age_18_plus |-> 1],
       [Month |-> "2024-01", State |-> "Goa", District |-> "South Goa",
        Age_0_5 |-> 1, Age_5_17 |-> 1, Age_18_plus |-> 1] >>

RecRecordLists ==
    SeqsUpTo({ AadhaarRecord("2024-01", st, row) : st \in RecStates, row \in RecRows },
             MaxRecRecords)
    \cup LongRecLists
    \cup {Average100Records, SkippedRecords, MonitorRecords}

\* the region summaries handed to generateRecommendations are results of
\* aggregateByState for the period the recommendations are about
InitRecs ==
    /\ DashboardInit
    /\ fn = "generateRecommendations"
    /\ arg \in { [states |-> aggregateByState(recs, m), month |-> m] :
                     recs \in RecRecordLists, m \in Months }
    /\ ret = Pending

CallGenerateRecommendations ==
    /\ fn = "generateRecommendations"
    /\ ret = Pending
    /\ ret' = generateRecommendations(arg.states, arg.month)
    /\ UNCHANGED <<dashVars, fn, arg>>

SpecRecs == InitRecs /\ [][CallGenerateRecommendations]_vars

\* the location text of a sub-region summary of a region summary
LocationOf(state, district) == district.district \o ", " \o state.state

\* sum and number of the sub-region totals of all the regions
TotalOfAll(states) ==
    SumSeq([p \in 1..Len(AllDistricts(states)) |-> AllDistricts(states)[p].totalUpdates])
CountOfAll(states) == Len(AllDistricts(states))

\* one of the four reason rules holds of a sub-region: its total over the mean
\* total of its region rounds to more than 1.5 at one decimal, or the 18+
\* share is above 0.65, the 0-5 share above 0.25, the 5-17 share above 0.3
ReasonRuleFires(state, district) ==
    LET t == district.totalUpdates
    IN  \/ state.totalUpdates > 0
           /\ 20 * t * Len(state.districts) >= 31 * state.totalUpdates
        \/ t > 0 /\ 100 * district.age18Plus > 65 * t
        \/ t > 0 /\ 4 * district.age0_5 > t
        \/ t > 0 /\ 10 * district.age5_17 > 3 * t

\* total > 1.5 x avgTotal
AboveCapacity(states, district) ==
    2 * district.totalUpdates * CountOfAll(states) > 3 * TotalOfAll(states)

Reported(state, district) ==
    \E k \in 1..Len(ret) : ret[k].location = LocationOf(state, district)

\* C12: every recommendation returned by generateRecommendations has at least
\* one reason and refers to a sub-region of intensity high for which a reason
\* rule holds; a sub-region that is not high, or for which no reason rule
\* holds, has no recommendation, whatever its total.
C12_OnlyHighWithReason ==
    (fn = "generateRecommendations" /\ ret # Pending) =>
        /\ \A k \in 1..Len(ret) :
               /\ Len(ret[k].reasons) >= 1
               /\ \E i \in 1..Len(arg.states) :
                      \E j \in 1..Len(arg.states[i].districts) :
                          LET s == arg.states[i]
                              d == s.districts[j]
                          IN  /\ ret[k].location = LocationOf(s, d)
                              /\ d.intensity = "high"
                              /\ ReasonRuleFires(s, d)
        /\ \A i \in 1..Len(arg.states) :
               \A j \in 1..Len(arg.states[i].districts) :
                   LET s == arg.states[i]
                       d == s.districts[j]
                   IN  (d.intensity # "high" \/ ~ReasonRuleFires(s, d))
                           => ~Reported(s, d)

\* a recommendation is returned while a sub-region that is not high and a high
\* sub-region without reason, both above 1.5 x avgTotal, are passed over
C12_Witness ==
    /\ fn = "generateRecommendations"
    /\ ret # Pending
    /\ Len(ret) >= 1
    /\ \E i \in 1..Len(arg.states) :
           \E j, h \in 1..Len(arg.states[i].districts) :
               LET s == arg.states[i]
               IN  /\ s.districts[j].intensity # "high"
                   /\ ReasonRuleFires(s, s.districts[j])
                   /\ AboveCapacity(arg.states, s.districts[j])
                   /\ ~Reported(s, s.districts[j])
                   /\ s.districts[h].intensity = "high"
                   /\ ~ReasonRuleFires(s, s.districts[h])
                   /\ AboveCapacity(arg.states, s.districts[h])
                   /\ ~Reported(s, s.districts[h])

\* C13: every recommendation returned by generateRecommendations has severity
\* high when the total of its sub-region is strictly greater than twice the
\* mean of all sub-region totals of the period and medium otherwise, and its
\* expected impact is the fixed text of that severity; with a mean of 100 a
\* total of 250 gives high and a total of 180 gives medium.
C13_SeverityThreshold ==
    (fn = "generateRecommendations" /\ ret # Pending) =>
        \A k \in 1..Len(ret) :
            \A i \in 1..Len(arg.states) :
                \A j \in 1..Len(arg.states[i].districts) :
                    LET d == arg.states[i].districts[j]
                        t == d.totalUpdates
                        sum == TotalOfAll(arg.states)
                        count == CountOfAll(arg.states)
                    IN  ret[k].location = LocationOf(arg.states[i], d) =>
                            /\ ret[k].severity \in {"high", "medium"}
                            /\ ret[k].severity = "high" <=> t * count > 2 * sum
                            /\ ret[k].severity = "high" =>
                                   ret[k].expectedImpact = "~25-35% load normalization"
                            /\ ret[k].severity = "medium" =>
                                   ret[k].expectedImpact = "~15-20% efficiency improvement"
                            /\ (sum = 100 * count /\ t = 250) => ret[k].severity = "high"
                            /\ (sum = 100 * count /\ t = 180) => ret[k].severity = "medium"

\* with a mean total of 100, the sub-region of total 250 is reported as high
\* and the sub-region of total 180 as medium
C13_Witness ==
    /\ fn = "generateRecommendations"
    /\ ret # Pending
    /\ TotalOfAll(arg.states) = 100 * CountOfAll(arg.states)
    /\ \E k, h \in 1..Len(ret) :
           /\ ret[k].location = "Patna, Bihar"
           /\ ret[k].severity = "high"
           /\ ret[h].location = "Gaya, Bihar"
           /\ ret[h].severity = "medium"
    /\ \E i \in 1..Len(arg.states) :
           \E j, h \in 1..Len(arg.states[i].districts) :
               /\ arg.states[i].state = "Bihar"
               /\ arg.states[i].districts[j].district = "Patna"
               /\ arg.states[i].districts[j].totalUpdates = 250
               /\ arg.states[i].districts[h].district = "Gaya"
               /\ arg.states[i].districts[h].totalUpdates = 180

\* C14: generateRecommendations returns at most 4 recommendations: the produced
\* recommendations, in the traversal order of regions and sub-regions, are
\* ordered with every high one before every medium one, those of equal severity
\* in production order, and the first 4 of that order are returned.
C14_HighFirstThenCut ==
    (fn = "generateRecommendations" /\ ret # Pending) =>
        LET produced == ProducedRecommendations(arg.states, arg.month)
            flat == AllDistricts(arg.states)
            OwnerOf(p) == CHOOSE i \in 1..Len(arg.states) :
                              \E j \in 1..Len(arg.states[i].districts) :
                                  arg.states[i].districts[j] = flat[p]
            inOrder == { p \in 1..Len(flat) :
                             \E k \in 1..Len(produced) :
                                 produced[k].location
                                     = LocationOf(arg.states[OwnerOf(p)], flat[p]) }
            highs == { k \in 1..Len(produced) : produced[k].severity = "high" }
            Rank(k) == IF k \in highs
                       THEN Cardinality({ h \in highs : h <= k })
                       ELSE Cardinality(highs)
                            + Cardinality({ h \in (1..Len(produced)) \ highs : h <= k })
        IN  /\ Len(ret) <= 4
            /\ Len(ret) = IF Len(produced) < 4 THEN Len(produced) ELSE 4
            /\ \A k \in 1..Len(produced) : Rank(k) <= 4 => ret[Rank(k)] = produced[k]
            /\ Cardinality(inOrder) = Len(produced)
            /\ \A p, q \in inOrder, k, h \in 1..Len(produced) :
                   ( /\ p < q
                     /\ produced[k].location = LocationOf(arg.states[OwnerOf(p)], flat[p])
                     /\ produced[h].location = LocationOf(arg.states[OwnerOf(q)], flat[q]) )
                       => k < h

\* five recommendations are produced, the first and the last of them medium;
\* the four returned start with a high one and end with a medium one
C14_Witness ==
    /\ fn = "generateRecommendations"
    /\ ret # Pending
    /\ Len(ProducedRecommendations(arg.states, arg.month)) = 5
    /\ ProducedRecommendations(arg.states, arg.month)[1].severity = "medium"
    /\ ProducedRecommendations(arg.states, arg.month)[5].severity = "medium"
    /\ Len(ret) = 4
    /\ ret[1].severity = "high"
    /\ ret[4].severity = "medium"

(***************************************************************************)
(* Monotonicity of calculateIntensity                                      *)
(***************************************************************************)

BucketRank(bucket) ==
    IF bucket = "low" THEN 1 ELSE IF bucket = "medium" THEN 2 ELSE 3

\* C15: for a fixed non-empty reference sequence calculateIntensity is monotone:
\* a value that is not larger is never given a bucket of higher rank
\* (low < medium < high), a value that is not smaller never one of lower rank.
C15_ClassifyMonotone ==
    (fn = "calculateIntensity" /\ ret # Pending /\ arg.values # << >>) =>
        \A v \in 0..(MaxValue + 1) :
            /\ v <= arg.value =>
                   BucketRank(calculateIntensity(v, arg.values)) <= BucketRank(ret)
            /\ arg.value <= v =>
                   BucketRank(ret) <= BucketRank(calculateIntensity(v, arg.values))

\* a value classified medium between a smaller one classified low and a larger
\* one classified high
C15_Witness ==
    /\ fn = "calculateIntensity"
    /\ ret = "medium"
    /\ arg.values # << >>
    /\ \E v1, v2 \in 0..(MaxValue + 1) :
           /\ v1 < arg.value
           /\ arg.value < v2
           /\ calculateIntensity(v1, arg.values) = "low"
           /\ calculateIntensity(v2, arg.values) = "high"

(***************************************************************************)
(* parseCSV.  A JavaScript string is the sequence of its characters, each  *)
(* a one-character string; Str gives the string of a sequence.             *)
(***************************************************************************)

RECURSIVE Str(_)
Str(chars) == IF chars = << >> THEN "" ELSE Head(chars) \o Str(Tail(chars))

\* the white space String.prototype.trim and parseInt strip, among the
\* characters of the texts below
WhiteSpace == {" ", "\t", "\n", "\r"}

RECURSIVE TrimStart(_)
TrimStart(s) ==
    IF s # << >> /\ Head(s) \in WhiteSpace THEN TrimStart(Tail(s)) ELSE s

RECURSIVE TrimEnd(_)
TrimEnd(s) ==
    IF s # << >> /\ s[Len(s)] \in WhiteSpace
    THEN TrimEnd(SubSeq(s, 1, Len(s) - 1)) ELSE s

\* String.prototype.trim
Trim(s) == TrimEnd(TrimStart(s))

\* String.prototype.split(sep) for a one-character separator
RECURSIVE Split(_, _)
Split(s, sep) ==
    IF \A i \in 1..Len(s) : s[i] # sep THEN <<s>>
    ELSE LET k == CHOOSE i \in 1..Len(s) :
                      s[i] = sep /\ \A h \in 1..(i - 1) : s[h] # sep
         IN  <<SubSeq(s, 1, k - 1)>> \o Split(SubSeq(s, k + 1, Len(s)), sep)

\* Array.prototype.join(sep) for a one-character separator
RECURSIVE Join(_, _)
Join(parts, sep) ==
    IF parts = << >> THEN << >>
    ELSE IF Len(parts) = 1 THEN parts[1]
    ELSE parts[1] \o <<sep>> \o Join(Tail(parts), sep)

\* the loop of parseCSVLine from index i (1-based) on
RECURSIVE ParseLineFrom(_, _, _, _, _)
ParseLineFrom(line, i, result, current, inQuotes) ==
    IF i > Len(line) THEN Append(result, Trim(current))
    ELSE IF line[i] = "\"" THEN ParseLineFrom(line, i + 1, result, current, ~inQuotes)
    ELSE IF line[i] = "," /\ ~inQuotes
         THEN ParseLineFrom(line, i + 1, Append(result, Trim(current)), << >>, inQuotes)
    ELSE ParseLineFrom(line, i + 1, result, Append(current, line[i]), inQuotes)

\* variant: the scan starts inside quotes
parseCSVLineFromQuoted(line) == ParseLineFrom(line, 1, << >>, << >>, TRUE)

parseCSVLine(line) == ParseLineFrom(line, 1, << >>, << >>, FALSE)

LowerLetters ==
    << "a", "b", "c", "d", "e", "f", "g", "h", "i", "j", "k", "l", "m",
       "n", "o", "p", "q", "r", "s", "t", "u", "v", "w", "x", "y", "z" >>

UpperLetters ==
    << "A", "B", "C", "D", "E", "F", "G", "H", "I", "J", "K", "L", "M",
       "N", "O", "P", "Q", "R", "S", "T", "U", "V", "W", "X", "Y", "Z" >>

\* String.prototype.toLowerCase of one ASCII character
ToLowerCase(c) ==
    IF \E k \in 1..26 : UpperLetters[k] = c
    THEN LowerLetters[CHOOSE k \in 1..26 : UpperLetters[k] = c] ELSE c

\* String.prototype.toUpperCase of one ASCII character
ToUpperCase(c) ==
    IF \E k \in 1..26 : LowerLetters[k] = c
    THEN UpperLetters[CHOOSE k \in 1..26 : LowerLetters[k] = c] ELSE c

\* word.charAt(0).toUpperCase() + word.slice(1); charAt(0) of '' is ''
Capitalize(word) ==
    IF word = << >> THEN << >> ELSE <<ToUpperCase(word[1])>> \o Tail(word)

\* variant: the name is not lower-cased first
normalizeCaseKeepsCase(str) ==
    LET words == Split(str, " ")
    IN  Join([w \in 1..Len(words) |-> Capitalize(words[w])], " ")

normalizeCase(str) ==
    LET lower == [i \in 1..Len(str) |-> ToLowerCase(str[i])]
        words == Split(lower, " ")
    IN  Join([w \in 1..Len(words) |-> Capitalize(words[w])], " ")

\* NaN, held as a number that no field of the texts below denotes
NaN == -1000000000

Digits == {"0", "1", "2", "3", "4", "5", "6", "7", "8", "9"}

DigitValue(c) == CHOOSE v \in 0..9 : DigitChar[v + 1] = c

\* the value of the longest run of digits at the start of s, read after acc
RECURSIVE ParseDigitRun(_, _)
ParseDigitRun(s, acc) ==
    IF s # << >> /\ Head(s) \in Digits
    THEN ParseDigitRun(Tail(s), 10 * acc + DigitValue(Head(s)))
    ELSE acc

\* parseInt(value, 10) of an optional string (the sequence of zero or one
\* string): white space is skipped, a sign is read, then the digits up to the
\* first other character; NaN without a digit and for undefined
parseInt(optional) ==
    IF optional = << >> THEN NaN
    ELSE LET s == TrimStart(optional[1])
             signed == s # << >> /\ s[1] \in {"-", "+"}
             body == IF signed THEN Tail(s) ELSE s
         IN  IF body = << >> \/ body[1] \notin Digits THEN NaN
             ELSE IF signed /\ s[1] = "-" THEN 0 - ParseDigitRun(body, 0)
             ELSE ParseDigitRun(body, 0)

\* values[i] for a 0-based index: the sequence of zero or one string
At(values, i) == IF i + 1 <= Len(values) THEN <<values[i + 1]>> ELSE << >>

\* the exception of normalizeCase(undefined): undefined has no toLowerCase
TypeError == "TypeError"

\* the record of one line; values[1] and values[2] are defined
RecordOfLine(values) ==
    [Month |-> Str(values[1]),
     State |-> Str(normalizeCase(values[2])),
     District |-> Str(normalizeCase(values[3])),
     Age_0_5 |-> parseInt(At(values, 3)),
     Age_5_17 |-> parseInt(At(values, 4)),
     Age_18_plus |-> parseInt(At(values, 5))]

\* variant: the header line is parsed as a record, too
parseCSVKeepsHeader(csvText) ==
    LET lines == Split(Trim(csvText), "\n")
        values == [k \in 1..Len(lines) |-> parseCSVLine(lines[k])]
    IN  IF \E k \in 1..Len(lines) : Len(values[k]) < 3 THEN TypeError
        ELSE << >> \o [k \in 1..Len(lines) |-> RecordOfLine(values[k])]

\* the callback of map throws for a line of fewer than three fields, and
\* parseCSV with it
parseCSV(csvText) ==
    LET lines == Split(Trim(csvText), "\n")
        data == Tail(lines)
        values == [k \in 1..Len(data) |-> parseCSVLine(data[k])]
    IN  IF \E k \in 1..Len(data) : Len(values[k]) < 3 THEN TypeError
        ELSE << >> \o [k \in 1..Len(data) |-> RecordOfLine(values[k])]

\* fields of the data lines: a period, region names (plain, upper case between
\* spaces, quoted with a comma), a sub-region name, counts (digits, digits
\* after a space and before a letter, no digit)
MonthField == << "2", "0", "2", "4", "-", "0", "1" >>

StateFields ==
    { << "g", "o", "a" >>,
      << " ", "G", "O", "A", " " >>,
      << "\"", "a", ",", "b", "\"" >> }

DistrictField == << "n", " ", "G", "o", "a" >>

CountFields == { << "1", "2" >>, << " ", "3", "k" >>, << "x" >> }

FieldsOfLine(st, c) ==
    << MonthField, st, DistrictField, c, << "5" >>, << "6" >>, << "z" >> >>

\* the first n fields joined by commas; no field is the empty line
LineOf(n, fields) == Join(SubSeq(fields, 1, n), ",")

\* lines of six fields, and lines of 0, 2, 3, 5 and 7 fields
DataLines ==
    { LineOf(6, FieldsOfLine(st, c)) : st \in StateFields, c \in CountFields }
    \cup { LineOf(n, FieldsOfLine(<< "g", "o", "a" >>, << "1", "2" >>)) :
               n \in {0, 2, 3, 5, 7} }

Headers == { << "h", ",", "x" >>, << " ", "\"", "h" >> }

\* most data lines of a text
MaxLines == 2

CsvTexts ==
    { Join(<<header>> \o lines, "\n") \o ending :
          header \in Headers,
          lines \in SeqsUpTo(DataLines, MaxLines),
          ending \in { << >>, << "\n" >> } }

InitParse ==
    /\ DashboardInit
    /\ fn = "parseCSV"
    /\ arg \in CsvTexts
    /\ ret = Pending

CallParseCSV ==
    /\ fn = "parseCSV"
    /\ ret = Pending
    /\ ret' = parseCSV(arg)
    /\ UNCHANGED <<dashVars, fn, arg>>

SpecParse == InitParse /\ [][CallParseCSV]_vars

\* the lines of a text: its parts between line feeds; white space at the end
\* of the text holds no line
LinesOfText(text) == Split(TrimEnd(text), "\n")

\* C16: parseCSV discards the first line of its input and returns one record
\* for each line after it, in line order, the fields of the line becoming
\* Month, State, District, Age_0_5, Age_5_17 and Age_18_plus by position; a
\* header alone gives the empty sequence.
C16_OneRecordPerLine ==
    (fn = "parseCSV" /\ ret # Pending) =>
        LET lines == LinesOfText(arg)
        IN  /\ ret # TypeError
            /\ Len(ret) = Len(lines) - 1
            /\ \A k \in 1..Len(ret) :
                   LET values == parseCSVLine(lines[k + 1])
                   IN  /\ ret[k].Month = Str(At(values, 0)[1])
                       /\ Len(values) >= 3
                       /\ ret[k].State = Str(normalizeCase(values[2]))
                       /\ ret[k].District = Str(normalizeCase(values[3]))
                       /\ ret[k].Age_0_5 = parseInt(At(values, 3))
                       /\ ret[k].Age_5_17 = parseInt(At(values, 4))
                       /\ ret[k].Age_18_plus = parseInt(At(values, 5))
            /\ Len(lines) = 1 => ret = << >>

\* the same of the texts whose first line is not blank and whose other lines
\* all have three fields or more
C16_WellFormedTexts ==
    (fn = "parseCSV" /\ ret # Pending) =>
        LET lines == LinesOfText(arg)
        IN  ( /\ Trim(lines[1]) # << >>
              /\ \A k \in 2..Len(lines) : Len(parseCSVLine(lines[k])) >= 3 )
                => /\ ret # TypeError
                   /\ Len(ret) = Len(lines) - 1
                   /\ \A k \in 1..Len(ret) :
                          ret[k] = RecordOfLine(parseCSVLine(lines[k + 1]))

(***************************************************************************)
(* normalizeCase                                                           *)
(***************************************************************************)

NameChars == {"a", "A", "b", " ", "\t"}

\* longest name over all the characters
MaxNameLen == 4

UttarPradeshUpper ==
    << "U", "T", "T", "A", "R", " ", "P", "R", "A", "D", "E", "S", "H" >>

UttarPradeshLower ==
    << "u", "t", "t", "a", "r", " ", "p", "r", "a", "d", "e", "s", "h" >>

\* the names given to normalizeCase are fields that parseCSVLine has trimmed
Names ==
    { name \in SeqsUpTo(NameChars, MaxNameLen) : Trim(name) = name }
    \cup {UttarPradeshUpper, UttarPradeshLower}

InitNormalize ==
    /\ DashboardInit
    /\ fn = "normalizeCase"
    /\ arg \in Names
    /\ ret = Pending

CallNormalizeCase ==
    /\ fn = "normalizeCase"
    /\ ret = Pending
    /\ ret' = normalizeCase(arg)
    /\ UNCHANGED <<dashVars, fn, arg>>

SpecNormalize == InitNormalize /\ [][CallNormalizeCase]_vars

\* the name in lower case but for the first character of every word, which is
\* in upper case; a word starts the name or follows one of the delimiters
TitleCase(name, delimiters) ==
    [i \in 1..Len(name) |->
        IF i = 1 \/ name[i - 1] \in delimiters
        THEN ToUpperCase(ToLowerCase(name[i]))
        ELSE ToLowerCase(name[i])]

\* two names that differ only in letter case
SameButCase(n1, n2) ==
    /\ Len(n1) = Len(n2)
    /\ \A i \in 1..Len(n1) : ToLowerCase(n1[i]) = ToLowerCase(n2[i])

\* C17 as stated: a name is normalized by lower-casing it and upper-casing the
\* first character of each white-space-delimited word; names that differ only
\* in letter case get the same canonical name, and a normalized name is left
\* unchanged.
C17_WhiteSpaceDelimitedWords ==
    (fn = "normalizeCase" /\ ret # Pending) =>
        /\ Len(ret) = Len(arg)
        /\ \A i \in 1..Len(ret) : ret[i] = TitleCase(arg, {" ", "\t"})[i]
        /\ \A other \in Names : SameButCase(other, arg) => normalizeCase(other) = ret
        /\ normalizeCase(ret) = ret

\* C17, amended: a name is normalized by lower-casing it and upper-casing the
\* first character of each word delimited by the space character (a tab starts
\* no word); names that differ only in letter case get the same canonical
\* name ("UTTAR PRADESH" and "uttar pradesh" both give "Uttar Pradesh"), and a
\* normalized name is left unchanged.
C17_SpaceDelimitedWords ==
    (fn = "normalizeCase" /\ ret # Pending) =>
        /\ Len(ret) = Len(arg)
        /\ \A i \in 1..Len(ret) : ret[i] = TitleCase(arg, {" "})[i]
        /\ \A other \in Names : SameButCase(other, arg) => normalizeCase(other) = ret
        /\ normalizeCase(ret) = ret
        /\ arg \in {UttarPradeshUpper, UttarPradeshLower} => Str(ret) = "Uttar Pradesh"

\* a name of upper-case letters whose second word follows a space, and whose
\* canonical name differs from it
C17_Witness ==
    /\ fn = "normalizeCase"
    /\ ret # Pending
    /\ arg = UttarPradeshUpper
    /\ Str(ret) = "Uttar Pradesh"
    /\ \E other \in Names : other # arg /\ SameButCase(other, arg)

(***************************************************************************)
(* parseCSV of the line joined from a record                               *)
(***************************************************************************)

\* the decimal digits of a non-negative integer
RECURSIVE DigitsOf(_)
DigitsOf(n) ==
    IF n < 10 THEN <<DigitChar[n + 1]>>
    ELSE DigitsOf(n \div 10) \o <<DigitChar[(n % 10) + 1]>>

\* the text of a header line and the comma-joined line of a record
CsvOfRecord(header, record) ==
    header \o <<"\n">>
        \o Join(<< record.period, record.region, record.subRegion,
                   DigitsOf(record.low), DigitsOf(record.mid),
                   DigitsOf(record.high) >>, ",")

FieldChars == {"a", "B", " ", "\n"}

\* longest region name over all the characters
MaxFieldLen == 2

PeriodFields == { MonthField, << >>, << "2", "4", " " >> }

SubRegionFields == { << "n", " ", "G", "o", "a" >>, << " ", "x" >>, << >> }

HeaderLines == { << "h", ",", "x" >>, << " ", "h" >> }

InitRoundTrip ==
    /\ DashboardInit
    /\ fn = "parseCSV of a joined record"
    /\ arg \in [header : HeaderLines,
                record : [period : PeriodFields,
                          region : SeqsUpTo(FieldChars, MaxFieldLen),
                          subRegion : SubRegionFields,
                          low : {0, 7, 12}, mid : {5}, high : {0, 120}]]
    /\ ret = Pending

CallParseJoined ==
    /\ fn = "parseCSV of a joined record"
    /\ ret = Pending
    /\ ret' = parseCSV(CsvOfRecord(arg.header, arg.record))
    /\ UNCHANGED <<dashVars, fn, arg>>

SpecRoundTrip == InitRoundTrip /\ [][CallParseJoined]_vars

\* the result is the one record of the joined line
GivesBack(record) ==
    /\ ret # TypeError
    /\ Len(ret) = 1
    /\ ret[1].Month = Str(record.period)
    /\ ret[1].State = Str(normalizeCase(record.region))
    /\ ret[1].District = Str(normalizeCase(record.subRegion))
    /\ ret[1].Age_0_5 = record.low
    /\ ret[1].Age_5_17 = record.mid
    /\ ret[1].Age_18_plus = record.high

NoQuoteOrComma(field) == \A i \in 1..Len(field) : field[i] \notin {"\"", ","}

\* a field without line feed that neither starts nor ends with white space
PlainField(field) ==
    /\ NoQuoteOrComma(field)
    /\ \A i \in 1..Len(field) : field[i] # "\n"
    /\ Trim(field) = field

\* C18 as stated: for a record whose fields hold no quote and no comma,
\* parsing a header line followed by the comma-joined line of the record gives
\* one record with the same period, the same three counts, and the region and
\* sub-region names normalized.
C18_RoundTrip ==
    ( /\ fn = "parseCSV of a joined record"
      /\ ret # Pending
      /\ NoQuoteOrComma(arg.record.period)
      /\ NoQuoteOrComma(arg.record.region)
      /\ NoQuoteOrComma(arg.record.subRegion) )
        => GivesBack(arg.record)

\* C18, amended: for a record whose fields hold no quote, no comma and no line
\* break and neither start nor end with white space, parsing a non-blank
\* header line followed by the comma-joined line of the record gives one
\* record with the same period, the same three counts, and the region and
\* sub-region names normalized.
C18_RoundTripOfPlainFields ==
    ( /\ fn = "parseCSV of a joined record"
      /\ ret # Pending
      /\ Trim(arg.header) # << >>
      /\ \A i \in 1..Len(arg.header) : arg.header[i] # "\n"
      /\ PlainField(arg.record.period)
      /\ PlainField(arg.record.region)
      /\ PlainField(arg.record.subRegion) )
        => GivesBack(arg.record)

\* a record of plain fields with names of mixed case comes back normalized
C18_Witness ==
    /\ fn = "parseCSV of a joined record"
    /\ ret # Pending
    /\ arg.record.period = MonthField
    /\ arg.record.region = << "a", "B" >>
    /\ arg.record.subRegion = << "n", " ", "G", "o", "a" >>
    /\ arg.record.low = 12
    /\ arg.record.high = 120
    /\ Len(ret) = 1
    /\ ret[1] = AadhaarRecord("2024-01", "Ab",
                              [District |-> "N Goa", Age_0_5 |-> 12,
                               Age_5_17 |-> 5, Age_18_plus |-> 120])

(***************************************************************************)
(* getUniqueMonths                                                         *)
(***************************************************************************)

PeriodValues == {"2023-12", "2024-01", "2024-02", "2024-10"}

\* longest record list given to getUniqueMonths
MaxMonthRecords == 4

InitMonths ==
    /\ DashboardInit
    /\ fn = "getUniqueMonths"
    /\ arg \in SeqsUpTo({ AadhaarRecord(m, "Bihar",
                                        [District |-> "Patna", Age_0_5 |-> 1,
                                         Age_5_17 |-> 1, Age_18_plus |-> 1]) :
                              m \in PeriodValues }, MaxMonthRecords)
    /\ ret = Pending

CallGetUniqueMonths ==
    /\ fn = "getUniqueMonths"
    /\ ret = Pending
    /\ ret' = getUniqueMonths(arg)
    /\ UNCHANGED <<dashVars, fn, arg>>

SpecMonths == InitMonths /\ [][CallGetUniqueMonths]_vars

\* a comes before b in the order of the code units: at the first position
\* where they differ a ends or has the smaller unit
LexicallyBefore(a, b) ==
    \E k \in 1..Len(CodeUnits(b)) :
        /\ \A h \in 1..(k - 1) :
               h <= Len(CodeUnits(a)) /\ CodeUnits(a)[h] = CodeUnits(b)[h]
        /\ \/ k > Len(CodeUnits(a))
           \/ CodeUnits(a)[k] < CodeUnits(b)[k]

\* the number of the month of a YYYY-MM period, counted from year 0
MonthNumber(period) ==
    12 * ParseDigits(SubSeq(CodeUnits(period), 1, 4))
        + ParseDigits(SubSeq(CodeUnits(period), 6, 7))

\* C19: the list returned by getUniqueMonths holds each period of the records
\* once and nothing else, in strictly descending lexical order; its first
\* element is the latest YYYY-MM period, and it is empty exactly when there
\* are no records.
C19_DistinctPeriodsDescending ==
    (fn = "getUniqueMonths" /\ ret # Pending) =>
        /\ \A k \in 1..Len(arg) : \E i \in 1..Len(ret) : ret[i] = arg[k].Month
        /\ \A i \in 1..Len(ret) : \E k \in 1..Len(arg) : arg[k].Month = ret[i]
        /\ \A i, j \in 1..Len(ret) : i < j => LexicallyBefore(ret[j], ret[i])
        /\ \A k \in 1..Len(arg) : MonthNumber(arg[k].Month) <= MonthNumber(ret[1])
        /\ (Len(ret) = 0) <=> (Len(arg) = 0)

\* four records of three periods, not in order, the latest one not first
C19_Witness ==
    /\ fn = "getUniqueMonths"
    /\ ret # Pending
    /\ Len(arg) = 4
    /\ arg[1].Month = "2024-01"
    /\ arg[2].Month = "2023-12"
    /\ arg[4].Month = "2024-01"
    /\ ret = << "2024-10", "2024-01", "2023-12" >>

(***************************************************************************)
(* formatNumber                                                            *)
(***************************************************************************)

\* counts around the two thresholds and around halves of a tenth
FormatBases == {0, 995, 1045, 1245, 999945, 999995, 1049995, 1249995, 12345675}

\* largest offset added to a base
MaxOffset == 9

InitFormat ==
    /\ DashboardInit
    /\ fn = "formatNumber"
    /\ arg \in { base + offset : base \in FormatBases, offset \in 0..MaxOffset }
    /\ ret = Pending

CallFormatNumber ==
    /\ fn = "formatNumber"
    /\ ret = Pending
    /\ ret' = formatNumber(arg)
    /\ UNCHANGED <<dashVars, fn, arg>>

SpecFormat == InitFormat /\ [][CallFormatNumber]_vars

\* the result is n / unit with one decimal and the suffix: the decimal numeral
\* of a number of tenths no further than half a tenth from n / unit
OneDecimalWithSuffix(n, unit, suffix) ==
    \E t \in { (10 * n) \div unit, (10 * n) \div unit + 1 } :
        /\ 2 * (10 * n - t * unit) <= unit
        /\ 2 * (t * unit - 10 * n) <= unit
        /\ ret = IntToString(t \div 10) \o "." \o IntToString(t % 10) \o suffix

\* C20: formatNumber maps a non-negative integer n to n / 1,000,000 with one
\* decimal followed by "M" when n >= 1,000,000, to n / 1,000 with one decimal
\* followed by "K" when 1,000 <= n < 1,000,000, and to the decimal integer
\* when n < 1,000; a count equal to a threshold takes the upper form.
C20_FormatByMagnitude ==
    (fn = "formatNumber" /\ ret # Pending) =>
        /\ arg >= 1000000 => OneDecimalWithSuffix(arg, 1000000, "M")
        /\ (1000 <= arg /\ arg < 1000000) => OneDecimalWithSuffix(arg, 1000, "K")
        /\ arg < 1000 => ret = IntToString(arg)
        /\ arg = 1000 => ret = "1.0K"
        /\ arg = 1000000 => ret = "1.0M"
        /\ arg = 999 => ret = "999"

\* the count at the upper threshold is shown in millions
C20_Witness ==
    /\ fn = "formatNumber"
    /\ arg = 1000000
    /\ ret = "1.0M"

(***************************************************************************)
(* Reasons and actions of a recommendation                                 *)
(***************************************************************************)

AdultHeavy(d) == d.totalUpdates > 0 /\ 100 * d.age18Plus > 65 * d.totalUpdates
ChildHeavy(d) == d.totalUpdates > 0 /\ 100 * d.age0_5 > 25 * d.totalUpdates
YouthHeavy(d) == d.totalUpdates > 0 /\ 100 * d.age5_17 > 30 * d.totalUpdates

RatioReasonTexts ==
    { "Adult-heavy demographic skew", "High child enrollment activity",
      "Youth update surge" }

\* the reasons the three ratio rules give a sub-region, each rule by itself
RatioReasons(d) ==
    (IF AdultHeavy(d) THEN << "Adult-heavy demographic skew" >> ELSE << >>)
    \o (IF ChildHeavy(d) THEN << "High child enrollment activity" >> ELSE << >>)
    \o (IF YouthHeavy(d) THEN << "Youth update surge" >> ELSE << >>)

\* the actions the three ratio rules and the capacity rule give a sub-region
RuleActions(states, d) ==
    (IF AdultHeavy(d)
     THEN << "Extended update windows", "Priority processing for biometric updates" >>
     ELSE << >>)
    \o (IF ChildHeavy(d)
        THEN << "School-based enrollment camps", "Parent awareness campaigns" >>
        ELSE << >>)
    \o (IF YouthHeavy(d) THEN << "College enrollment integration" >> ELSE << >>)
    \o (IF AboveCapacity(states, d)
        THEN << "Temporary capacity expansion", "Targeted awareness campaigns" >>
        ELSE << >>)

\* C21: in every recommendation the ratio rules are applied independently and
\* in order: 18+ share above 0.65 gives one reason and two actions, 0-5 share
\* above 0.25 one reason and two actions, 5-17 share above 0.30 one reason and
\* one action; two capacity actions follow exactly when the total is above
\* 1.5 x avgTotal; the actions are the single default action exactly when no
\* rule gave one, so neither reasons nor actions are empty.
C21_RulesApplyIndependently ==
    (fn = "generateRecommendations" /\ ret # Pending) =>
        \A k \in 1..Len(ret) :
            \A i \in 1..Len(arg.states) :
                \A j \in 1..Len(arg.states[i].districts) :
                    LET d == arg.states[i].districts[j]
                        reasons == ret[k].reasons
                        cited == Len(reasons) > 0 /\ reasons[1] \notin RatioReasonTexts
                        rest == IF cited THEN Tail(reasons) ELSE reasons
                    IN  ret[k].location = LocationOf(arg.states[i], d) =>
                            /\ rest = RatioReasons(d)
                            /\ Len(reasons) >= 1
                            /\ Len(ret[k].actions) >= 1
                            /\ ret[k].actions =
                                   IF RuleActions(arg.states, d) = << >>
                                   THEN << "Monitor situation closely" >>
                                   ELSE RuleActions(arg.states, d)
                            /\ (ret[k].actions = << "Monitor situation closely" >>)
                                   <=> (RuleActions(arg.states, d) = << >>)

\* a recommendation of two ratio reasons with their three actions and the two
\* capacity actions
C21_Witness ==
    /\ fn = "generateRecommendations"
    /\ ret # Pending
    /\ \E k \in 1..Len(ret) :
           /\ ret[k].reasons = << "High child enrollment activity", "Youth update surge" >>
           /\ ret[k].actions = << "School-based enrollment camps",
                                  "Parent awareness campaigns",
                                  "College enrollment integration",
                                  "Temporary capacity expansion",
                                  "Targeted awareness campaigns" >>

\* a recommendation whose only reason cites the multiplier has the default action
C21_DefaultActionReached ==
    /\ fn = "generateRecommendations"
    /\ ret # Pending
    /\ \E k \in 1..Len(ret) :
           /\ Len(ret[k].reasons) = 1
           /\ ret[k].reasons[1] \notin RatioReasonTexts
           /\ ret[k].actions = << "Monitor situation closely" >>

(***************************************************************************)
(* The multiplier reason                                                   *)
(***************************************************************************)

\* total / stateMedian in tenths, rounded to the nearest tenth: stateMedian is
\* the sum of the sub-region totals of the region over their number
RoundedMultiplier(state, d) ==
    CHOOSE t \in 0..(10 * state.totalUpdates * Len(state.districts)) :
        LET exact10 == 10 * d.totalUpdates * Len(state.districts)
        IN  /\ 2 * (t * state.totalUpdates) <= 2 * exact10 + state.totalUpdates
            /\ 2 * (t * state.totalUpdates) > 2 * exact10 - state.totalUpdates

MultiplierReason(state, d) ==
    IntToString(RoundedMultiplier(state, d) \div 10) \o "."
        \o IntToString(RoundedMultiplier(state, d) % 10)
        \o "× state median update volume"

\* C22: for a high sub-region the multiplier reason is added exactly when its
\* total over the mean total of the sub-regions of its region, rounded to one
\* decimal, is strictly greater than 1.5; a quotient that rounds to 1.5 adds
\* no reason.
C22_MultiplierReason ==
    (fn = "generateRecommendations" /\ ret # Pending) =>
        LET produced == ProducedRecommendations(arg.states, arg.month)
        IN  \A i \in 1..Len(arg.states) :
                \A j \in 1..Len(arg.states[i].districts) :
                    LET s == arg.states[i]
                        d == s.districts[j]
                        Cites(rec) == rec.reasons[1] = MultiplierReason(s, d)
                    IN  d.intensity = "high" =>
                            /\ RoundedMultiplier(s, d) > 15 =>
                                   \E k \in 1..Len(produced) :
                                       /\ produced[k].location = LocationOf(s, d)
                                       /\ Cites(produced[k])
                            /\ \A k \in 1..Len(ret) :
                                   ret[k].location = LocationOf(s, d) =>
                                       /\ RoundedMultiplier(s, d) > 15 <=> Cites(ret[k])
                                       /\ \A r \in 2..Len(ret[k].reasons) :
                                              ret[k].reasons[r] \in RatioReasonTexts
                                       /\ RoundedMultiplier(s, d) <= 15 =>
                                              ret[k].reasons[1] \in RatioReasonTexts

\* a reported sub-region of exactly 1.5 times the mean total of its region has
\* no multiplier reason
C22_Witness ==
    /\ fn = "generateRecommendations"
    /\ ret # Pending
    /\ \E i \in 1..Len(arg.states) :
           \E j \in 1..Len(arg.states[i].districts) :
               LET s == arg.states[i]
                   d == s.districts[j]
               IN  /\ d.intensity = "high"
                   /\ 2 * d.totalUpdates * Len(s.districts) = 3 * s.totalUpdates
                   /\ \E k \in 1..Len(ret) :
                          /\ ret[k].location = LocationOf(s, d)
                          /\ ret[k].reasons[1] \in RatioReasonTexts

\* a reported sub-region of 1.6 times the mean total of its region cites it
C22_CitedReached ==
    /\ fn = "generateRecommendations"
    /\ ret # Pending
    /\ \E k \in 1..Len(ret) : ret[k].reasons[1] = "1.6× state median update volume"

(***************************************************************************)
(* parseCSVLine on its own                                                 *)
(***************************************************************************)

LineChars == {"a", ",", "\"", " "}

MaxLineLen == 5

Lines == UNION { [1..n -> LineChars] : n \in 0..MaxLineLen }

InitLine ==
    /\ DashboardInit
    /\ fn = "parseCSVLine"
    /\ arg \in Lines
    /\ ret = Pending

CallParseCSVLine ==
    /\ fn = "parseCSVLine"
    /\ ret = Pending
    /\ ret' = parseCSVLine(arg)
    /\ UNCHANGED <<dashVars, fn, arg>>

SpecLine == InitLine /\ [][CallParseCSVLine]_vars

\* the flag before position i: an odd number of double quotes precedes it
InsideQuotes(line, i) ==
    Cardinality({q \in 1..(i - 1) : line[q] = "\""}) % 2 = 1

SeparatorCommas(line) ==
    {i \in 1..Len(line) : line[i] = "," /\ ~InsideQuotes(line, i)}

\* position of the k-th separator comma; 0 before the first field and
\* Len(line) + 1 after the last
SeparatorAt(line, k) ==
    IF k = 0 THEN 0
    ELSE IF k > Cardinality(SeparatorCommas(line)) THEN Len(line) + 1
    ELSE CHOOSE i \in SeparatorCommas(line) :
             Cardinality({c \in SeparatorCommas(line) : c < i}) = k - 1

NotQuote(c) == c # "\""

FieldBetween(line, k) ==
    Trim(SelectSeq(SubSeq(line, SeparatorAt(line, k - 1) + 1, SeparatorAt(line, k) - 1),
                   NotQuote))

\* C23: parseCSVLine toggles an inside-quotes flag, false at the start, at every
\* double quote; only a comma met with the flag false ends a field, a comma met
\* with the flag true stays in the field; no field holds a double quote; every
\* field is trimmed; k separator commas give k + 1 fields.
C23_QuotedFields ==
    (fn = "parseCSVLine" /\ ret # Pending) =>
        /\ Len(ret) = Cardinality(SeparatorCommas(arg)) + 1
        /\ \A k \in 1..Len(ret) :
               /\ ret[k] = FieldBetween(arg, k)
               /\ \A c \in 1..Len(ret[k]) : ret[k][c] # "\""
               /\ ret[k] # << >> =>
                      /\ ret[k][1] \notin WhiteSpace
                      /\ ret[k][Len(ret[k])] \notin WhiteSpace
               /\ Cardinality({c \in 1..Len(ret[k]) : ret[k][c] = ","})
                      = Cardinality({i \in (SeparatorAt(arg, k - 1) + 1)..(SeparatorAt(arg, k) - 1) :
                                         arg[i] = ","})

\* a quoted comma is kept in the first of two fields, and the second field
\* lost the blank before it
C23_Witness ==
    /\ fn = "parseCSVLine"
    /\ ret # Pending
    /\ arg = << "\"", ",", "\"", ",", " " >>
    /\ ret = << << "," >>, << >> >>

(***************************************************************************)
(* The calls of calculateIntensity made by aggregateByState                *)
(***************************************************************************)

\* the summaries of aggregateByState before they are classified
UnclassifiedStates(recs, month) ==
    LET stateMap == BuildStateMap(FilterMonth(recs, month))
    IN  [i \in 1..Len(stateMap) |-> NewState(stateMap[i])]

\* the intensities assigned by the loop, region first, then its sub-regions
AssignedIntensities(states) ==
    << >> \o Flatten([i \in 1..Len(states) |->
                << states[i].intensity >>
                    \o [j \in 1..Len(states[i].districts) |->
                           states[i].districts[j].intensity]])

\* C24: during aggregateByState calculateIntensity is never called with an
\* empty reference list: it is called only when a record matches the period,
\* and then the region totals and the sub-region totals are both non-empty.
C24_ReferenceNeverEmpty ==
    \A m \in Months \cup {selectedMonth} :
        LET states == UnclassifiedStates(records, m)
            calls == ClassifyCalls(states)
        IN  /\ \A c \in 1..Len(calls) : calls[c].values # << >>
            /\ calls # << >> <=> FilterMonth(records, m) # << >>
            /\ calls # << >> =>
                   /\ StateTotals(states) # << >>
                   /\ DistrictTotals(states) # << >>
                   /\ \E c \in 1..Len(calls) : calls[c].values = << >> \o StateTotals(states)
                   /\ \E c \in 1..Len(calls) : calls[c].values = DistrictTotals(states)
            /\ AssignedIntensities(ClassifyAll(states))
                   = [c \in 1..Len(calls) |->
                         calculateIntensity(calls[c].value, calls[c].values)]

\* a period with two regions and three sub-regions is on display: five calls
\* were made for it
C24_Witness ==
    /\ ~isLoading
    /\ Len(stateData) = 2
    /\ Len(ClassifyCalls(UnclassifiedStates(records, selectedMonth))) = 5
    /\ Len(DistrictTotals(UnclassifiedStates(records, selectedMonth))) = 3

\* a period without records is on display: no call was made for it
C24_NoCallReached ==
    /\ ~isLoading
    /\ records # << >>
    /\ selectedMonth # ""
    /\ stateData = << >>
    /\ ClassifyCalls(UnclassifiedStates(records, selectedMonth)) = << >>

(***************************************************************************)
(* The reference list of the caller                                        *)
(***************************************************************************)

\* C25: calculateIntensity leaves the reference list of its caller unchanged:
\* after the call values holds the same elements in the same order as before.
C25_CallerValuesKept ==
    [][fn = "calculateIntensity" => arg'.values = arg.values]_vars

\* a call with a reference list that is not in ascending order has returned,
\* and the list is still in that order
C25_Witness ==
    /\ fn = "calculateIntensity"
    /\ ret # Pending
    /\ arg.values = << 3, 1, 2 >>

(***************************************************************************)
(* The derived summaries as snapshots                                      *)
(***************************************************************************)

\* variant: the sub-regions of every region are sorted where they are
StatesAfterSortInPlace(states) ==
    [i \in 1..Len(states) |->
        [states[i] EXCEPT !.districts = SortByTotalDesc(states[i].districts)]]

\* states.flatMap(s => s.districts) is a new array, and that array is the one
\* sort() reorders (lines 424-427): states is the array of the caller afterwards
StatesAfterGetTopDistricts(states) == states

\* getDemographicAlerts reads states in two forEach loops and sorts its own
\* alerts array (lines 439-474)
StatesAfterGetDemographicAlerts(states) == states

\* generateRecommendations reads states and sorts its own recommendations
\* array (lines 481-540)
StatesAfterGenerateRecommendations(states) == states

\* records.filter(...) is a new array (line 360); the summaries are built from
\* new object literals (lines 377-403)
RecordsAfterAggregateByState(recs) == recs

\* longest record list behind the snapshots
MaxSnapshotRecords == 2

\* the fetch callback, over the shorter lists
LoadSnapshot ==
    /\ isLoading
    /\ \E parsed \in SeqsUpTo(RecordDomain, MaxSnapshotRecords) :
          LET months == getUniqueMonths(parsed)
              month == IF months # <<>> THEN months[1] ELSE ""
          IN  /\ records' = (IF month = "" THEN parsed
                             ELSE RecordsAfterAggregateByState(parsed))
              /\ selectedMonth' = month
              /\ isLoading' = FALSE
              /\ Render(parsed, month, FALSE)
    /\ UNCHANGED callVars

\* onMonthChange, with the stateData memo run again
SelectSnapshotMonth ==
    /\ ~isLoading
    /\ \E m \in Months :
          /\ selectedMonth' = m
          /\ records' = RecordsAfterAggregateByState(records)
          /\ Render(records, m, FALSE)
    /\ UNCHANGED <<isLoading, callVars>>

\* useMemo(() => getTopDistricts(stateData, 12), [stateData])
MemoTopDistricts ==
    /\ ~isLoading
    /\ fn' = "getTopDistricts"
    /\ arg' = stateData
    /\ ret' = getTopDistricts(stateData, << 12 >>)
    /\ stateData' = StatesAfterGetTopDistricts(stateData)
    /\ UNCHANGED <<records, selectedMonth, isLoading, summaryStats, totalText>>

\* a call of the exported getDemographicAlerts on the summaries on display; its
\* callers are not among the sources
MemoDemographicAlerts ==
    /\ ~isLoading
    /\ fn' = "getDemographicAlerts"
    /\ arg' = stateData
    /\ ret' = getDemographicAlerts(stateData)
    /\ stateData' = StatesAfterGetDemographicAlerts(stateData)
    /\ UNCHANGED <<records, selectedMonth, isLoading, summaryStats, totalText>>

\* a call of the exported generateRecommendations on the summaries on display
\* and the selected period; its callers are not among the sources
MemoRecommendations ==
    /\ ~isLoading
    /\ fn' = "generateRecommendations"
    /\ arg' = stateData
    /\ ret' = generateRecommendations(stateData, selectedMonth)
    /\ stateData' = StatesAfterGenerateRecommendations(stateData)
    /\ UNCHANGED <<records, selectedMonth, isLoading, summaryStats, totalText>>

NextSnapshot ==
    \/ LoadSnapshot
    \/ SelectSnapshotMonth
    \/ MemoTopDistricts
    \/ MemoDemographicAlerts
    \/ MemoRecommendations

SpecSnapshot == Init /\ [][NextSnapshot]_vars

\* C26: the derived summaries are read-only snapshots: whatever periods are
\* selected and whichever of getTopDistricts, getDemographicAlerts and
\* generateRecommendations are called, the record list stays as loaded, the
\* region summaries on hand stay as returned, and aggregateByState of the
\* records and the period, computed again, equals them.
C26_ReadOnlySnapshots ==
    /\ [](~isLoading => stateData = StateDataMemo(records, selectedMonth))
    /\ [][~isLoading => records' = records]_vars
    /\ [][(~isLoading /\ selectedMonth' = selectedMonth) => stateData' = stateData]_vars

\* getTopDistricts has returned the two sub-regions of a region in the other
\* order than the region holds them
C26_Witness ==
    /\ fn = "getTopDistricts"
    /\ Len(stateData) = 1
    /\ Len(stateData[1].districts) = 2
    /\ stateData[1].districts[1].totalUpdates < stateData[1].districts[2].totalUpdates
    /\ Len(ret) = 2
    /\ ret[1] = stateData[1].districts[2]
    /\ ret[2] = stateData[1].districts[1]

(***************************************************************************)
(* The names of the map and the region summaries                           *)
(***************************************************************************)

\* the entries of STATE_NAME_MAP in the order of the source: the name of the
\* geometry, then the name it stands for
STATE_NAME_MAP ==
    <<
      << << "A", "n", "d", "a", "m", "a", "n", " ", "a", "n", "d", " ", "N", "i", "c", "o", "b", "a", "r" >>,
         << "A", "n", "d", "a", "m", "a", "n", " ", "a", "n", "d", " ", "N", "i", "c", "o", "b", "a", "r" >> >>,
      << << "A", "n", "d", "h", "r", "a", " ", "P", "r", "a", "d", "e", "s", "h" >>,
         << "A", "n", "d", "h", "r", "a", " ", "P", "r", "a", "d", "e", "s", "h" >> >>,
      << << "A", "r", "u", "n", "a", "c", "h", "a", "l", " ", "P", "r", "a", "d", "e", "s", "h" >>,
         << "A", "r", "u", "n", "a", "c", "h", "a", "l", " ", "P", "r", "a", "d", "e", "s", "h" >> >>,
      << << "A", "s", "s", "a", "m" >>,
         << "A", "s", "s", "a", "m" >> >>,
      << << "B", "i", "h", "a", "r" >>,
         << "B", "i", "h", "a", "r" >> >>,
      << << "C", "h", "a", "n", "d", "i", "g", "a", "r", "h" >>,
         << "C", "h", "a", "n", "d", "i", "g", "a", "r", "h" >> >>,
      << << "C", "h", "h", "a", "t", "t", "i", "s", "g", "a", "r", "h" >>,
         << "C", "h", "h", "a", "t", "t", "i", "s", "g", "a", "r", "h" >> >>,
      << << "D", "a", "d", "r", "a", " ", "a", "n", "d", " ", "N", "a", "g", "a", "r", " ", "H", "a", "v", "e", "l", "i" >>,
         << "D", "a", "d", "r", "a", " ", "a", "n", "d", " ", "N", "a", "g", "a", "r", " ", "H", "a", "v", "e", "l", "i" >> >>,
      << << "D", "a", "m", "a", "n", " ", "a", "n", "d", " ", "D", "i", "u" >>,
         << "D", "a", "m", "a", "n", " ", "a", "n", "d", " ", "D", "i", "u" >> >>,
      << << "D", "e", "l", "h", "i" >>,
         << "D", "e", "l", "h", "i" >> >>,
      << << "N", "C", "T", " ", "o", "f", " ", "D", "e", "l", "h", "i" >>,
         << "D", "e", "l", "h", "i" >> >>,
      << << "G", "o", "a" >>,
         << "G", "o", "a" >> >>,
      << << "G", "u", "j", "a", "r", "a", "t" >>,
         << "G", "u", "j", "a", "r", "a", "t" >> >>,
      << << "H", "a", "r", "y", "a", "n", "a" >>,
         << "H", "a", "r", "y", "a", "n", "a" >> >>,
      << << "H", "i", "m", "a", "c", "h", "a", "l", " ", "P", "r", "a", "d", "e", "s", "h" >>,
         << "H", "i", "m", "a", "c", "h", "a", "l", " ", "P", "r", "a", "d", "e", "s", "h" >> >>,
      << << "J", "a", "m", "m", "u", " ", "a", "n", "d", " ", "K", "a", "s", "h", "m", "i", "r" >>,
         << "J", "a", "m", "m", "u", " ", "a", "n", "d", " ", "K", "a", "s", "h", "m", "i", "r" >> >>,
      << << "J", "h", "a", "r", "k", "h", "a", "n", "d" >>,
         << "J", "h", "a", "r", "k", "h", "a", "n", "d" >> >>,
      << << "K", "a", "r", "n", "a", "t", "a", "k", "a" >>,
         << "K", "a", "r", "n", "a", "t", "a", "k", "a" >> >>,
      << << "K", "e", "r", "a", "l", "a" >>,
         << "K", "e", "r", "a", "l", "a" >> >>,
      << << "L", "a", "k", "s", "h", "a", "d", "w", "e", "e", "p" >>,
         << "L", "a", "k", "s", "h", "a", "d", "w", "e", "e", "p" >> >>,
      << << "M", "a", "d", "h", "y", "a", " ", "P", "r", "a", "d", "e", "s", "h" >>,
         << "M", "a", "d", "h", "y", "a", " ", "P", "r", "a", "d", "e", "s", "h" >> >>,
      << << "M", "a", "h", "a", "r", "a", "s", "h", "t", "r", "a" >>,
         << "M", "a", "h", "a", "r", "a", "s", "h", "t", "r", "a" >> >>,
      << << "M", "a", "n", "i", "p", "u", "r" >>,
         << "M", "a", "n", "i", "p", "u", "r" >> >>,
      << << "M", "e", "g", "h", "a", "l", "a", "y", "a" >>,
         << "M", "e", "g", "h", "a", "l", "a", "y", "a" >> >>,
      << << "M", "i", "z", "o", "r", "a", "m" >>,
         << "M", "i", "z", "o", "r", "a", "m" >> >>,
      << << "N", "a", "g", "a", "l", "a", "n", "d" >>,
         << "N", "a", "g", "a", "l", "a", "n", "d" >> >>,
      << << "O", "d", "i", "s", "h", "a" >>,
         << "O", "d", "i", "s", "h", "a" >> >>,
      << << "O", "r", "i", "s", "s", "a" >>,
         << "O", "d", "i", "s", "h", "a" >> >>,
      << << "P", "u", "d", "u", "c", "h", "e", "r", "r", "y" >>,
         << "P", "u", "d", "u", "c", "h", "e", "r", "r", "y" >> >>,
      << << "P", "u", "n", "j", "a", "b" >>,
         << "P", "u", "n", "j", "a", "b" >> >>,
      << << "R", "a", "j", "a", "s", "t", "h", "a", "n" >>,
         << "R", "a", "j", "a", "s", "t", "h", "a", "n" >> >>,
      << << "S", "i", "k", "k", "i", "m" >>,
         << "S", "i", "k", "k", "i", "m" >> >>,
      << << "T", "a", "m", "i", "l", " ", "N", "a", "d", "u" >>,
         << "T", "a", "m", "i", "l", " ", "N", "a", "d", "u" >> >>,
      << << "T", "e", "l", "a", "n", "g", "a", "n", "a" >>,
         << "T", "e", "l", "a", "n", "g", "a", "n", "a" >> >>,
      << << "T", "r", "i", "p", "u", "r", "a" >>,
         << "T", "r", "i", "p", "u", "r", "a" >> >>,
      << << "U", "t", "t", "a", "r", " ", "P", "r", "a", "d", "e", "s", "h" >>,
         << "U", "t", "t", "a", "r", " ", "P", "r", "a", "d", "e", "s", "h" >> >>,
      << << "U", "t", "t", "a", "r", "a", "k", "h", "a", "n", "d" >>,
         << "U", "t", "t", "a", "r", "a", "k", "h", "a", "n", "d" >> >>,
      << << "U", "t", "t", "a", "r", "a", "n", "c", "h", "a", "l" >>,
         << "U", "t", "t", "a", "r", "a", "k", "h", "a", "n", "d" >> >>,
      << << "W", "e", "s", "t", " ", "B", "e", "n", "g", "a", "l" >>,
         << "W", "e", "s", "t", " ", "B", "e", "n", "g", "a", "l" >> >>,
      << << "L", "a", "d", "a", "k", "h" >>,
         << "L", "a", "d", "a", "k", "h" >> >>
    >>

\* STATE_NAME_MAP[geoName] || geoName
NormalizedName(geoName) ==
    IF \E e \in 1..Len(STATE_NAME_MAP) : STATE_NAME_MAP[e][1] = geoName
    THEN STATE_NAME_MAP[CHOOSE e \in 1..Len(STATE_NAME_MAP) : STATE_NAME_MAP[e][1] = geoName][2]
    ELSE geoName

\* stateDataMap.get(name): map.set(s.state, s) keeps the last summary set for
\* a name
StateDataMapGet(states, name) ==
    LET found == {i \in 1..Len(states) : states[i].state = name}
    IN  IF found = {} THEN << >>
        ELSE << states[CHOOSE i \in found : \A k \in found : k <= i] >>

\* the calls of onStateHover made by handleStateHover(geoName): one with the
\* summary found, none when the lookup gives undefined
handleStateHover(states, geoName) ==
    StateDataMapGet(states, Str(NormalizedName(geoName)))

\* a geometry name that STATE_NAME_MAP does not hold
Pondicherry == << "P", "o", "n", "d", "i", "c", "h", "e", "r", "r", "y" >>

GeoNames == { STATE_NAME_MAP[e][1] : e \in 1..Len(STATE_NAME_MAP) } \cup { Pondicherry }

UpperCased(name) == [i \in 1..Len(name) |-> ToUpperCase(name[i])]

LowerCased(name) == [i \in 1..Len(name) |-> ToLowerCase(name[i])]

\* the spellings of a name in the input: as written, upper case, lower case
Spellings(name) == { name, UpperCased(name), LowerCased(name) }

\* a file of one record for the region
CsvOfRegion(stateField) ==
    << "h", "\n", "2", "0", "2", "4", "-", "0", "1", "," >> \o stateField
        \o << ",", "P", "a", "t", "n", "a", ",", "1", ",", "2", ",", "3" >>

InitHover ==
    /\ DashboardInit
    /\ fn = "handleStateHover"
    /\ arg \in UNION { { [geoName |-> g, csvText |-> CsvOfRegion(s)] :
                            s \in Spellings(NormalizedName(g)) } : g \in GeoNames }
    /\ ret = Pending

CallHandleStateHover ==
    /\ fn = "handleStateHover"
    /\ ret = Pending
    /\ ret' = handleStateHover(aggregateByState(parseCSV(arg.csvText), "2024-01"),
                               arg.geoName)
    /\ UNCHANGED <<dashVars, fn, arg>>

SpecHover == InitHover /\ [][CallHandleStateHover]_vars

\* C27: for every geometry name of STATE_NAME_MAP the name it maps to is a
\* fixed point of normalizeCase, so a region that the input names by it, in any
\* letter case, is found by the lookup of handleStateHover.
C27_CanonicalNamesJoin ==
    (fn = "handleStateHover" /\ ret # Pending /\ arg.geoName # Pondicherry) =>
        /\ normalizeCase(NormalizedName(arg.geoName)) = NormalizedName(arg.geoName)
        /\ Len(ret) = 1
        /\ ret[1].state = Str(NormalizedName(arg.geoName))

\* the names of one capitalised word after another are found
C27_CapitalisedNamesFound ==
    (/\ fn = "handleStateHover"
     /\ ret # Pending
     /\ normalizeCase(NormalizedName(arg.geoName)) = NormalizedName(arg.geoName)) =>
        /\ Len(ret) = 1
        /\ ret[1].state = Str(NormalizedName(arg.geoName))
        /\ ret[1].totalUpdates = 6

\* the names that hold a lower-case word are not
C27_LowerCaseWordLost ==
    (/\ fn = "handleStateHover"
     /\ ret # Pending
     /\ normalizeCase(NormalizedName(arg.geoName)) # NormalizedName(arg.geoName)) =>
        ret = << >>

C27_FoundReached ==
    /\ fn = "handleStateHover"
    /\ ret # Pending
    /\ arg.geoName = << "N", "C", "T", " ", "o", "f", " ", "D", "e", "l", "h", "i" >>
    /\ Len(ret) = 1
    /\ ret[1].state = "Delhi"

(***************************************************************************)
(* Small levels                                                            *)
(***************************************************************************)

\* C28: in the result of aggregateByState a summary whose total is the least of
\* its level is low, and a level of fewer than three summaries has no high
\* one; so generateRecommendations returns nothing for a period with fewer than
\* three matching records.
C28_SmallLevels ==
    fn = "generateRecommendations" =>
        LET states == arg.states
            districts == AllDistricts(states)
        IN  /\ \A i \in 1..Len(states) :
                   (\A k \in 1..Len(states) : states[i].totalUpdates <= states[k].totalUpdates)
                       => states[i].intensity = "low"
            /\ \A j \in 1..Len(districts) :
                   (\A k \in 1..Len(districts) :
                        districts[j].totalUpdates <= districts[k].totalUpdates)
                       => districts[j].intensity = "low"
            /\ Len(states) < 3 => \A i \in 1..Len(states) : states[i].intensity # "high"
            /\ Len(districts) < 3 =>
                   /\ \A j \in 1..Len(districts) : districts[j].intensity # "high"
                   /\ ret # Pending => ret = << >>

\* nothing is returned for two records of one region, one of which has twice
\* the total of the other and a ratio above its threshold
C28_Witness ==
    /\ fn = "generateRecommendations"
    /\ ret # Pending
    /\ ret = << >>
    /\ Len(arg.states) = 1
    /\ Len(arg.states[1].districts) = 2
    /\ \E j \in 1..2 :
           /\ arg.states[1].districts[j].intensity = "medium"
           /\ arg.states[1].districts[j].totalUpdates = 4
           /\ arg.states[1].districts[3 - j].totalUpdates = 2
           /\ ReasonRuleFires(arg.states[1], arg.states[1].districts[j])

(***************************************************************************)
(* Actions of the high-severity recommendations                            *)
(***************************************************************************)

Holds(actions, action) == \E a \in 1..Len(actions) : actions[a] = action

\* C29: every recommendation of severity high holds the two capacity actions
\* and so never the default action list: a total above twice the average is
\* above one and a half times the average.
C29_HighSeverityCapacityActions ==
    (fn = "generateRecommendations" /\ ret # Pending) =>
        \A k \in 1..Len(ret) :
            ret[k].severity = "high" =>
                /\ Holds(ret[k].actions, "Temporary capacity expansion")
                /\ Holds(ret[k].actions, "Targeted awareness campaigns")
                /\ ~Holds(ret[k].actions, "Monitor situation closely")
                /\ Len(ret[k].actions) >= 2

\* a recommendation of severity high whose actions end with the capacity ones
C29_Witness ==
    /\ fn = "generateRecommendations"
    /\ ret # Pending
    /\ \E k \in 1..Len(ret) :
           /\ ret[k].severity = "high"
           /\ Len(ret[k].actions) > 2
           /\ SubSeq(ret[k].actions, Len(ret[k].actions) - 1, Len(ret[k].actions))
                  = << "Temporary capacity expansion", "Targeted awareness campaigns" >>

\* a recommendation of severity medium without the capacity actions
C29_MediumWithoutReached ==
    /\ fn = "generateRecommendations"
    /\ ret # Pending
    /\ \E k \in 1..Len(ret) :
           /\ ret[k].severity = "medium"
           /\ ~Holds(ret[k].actions, "Temporary capacity expansion")

(***************************************************************************)
(* Regions and their sub-regions                                           *)
(***************************************************************************)

\* C30: in the result of aggregateByState the region names are pairwise
\* distinct, one summary for every region name among the records of the
\* period; every region has a sub-region; and the state field of every
\* sub-region is the name of the region that lists it.
C30_RegionsAndSubRegions ==
    ~isLoading =>
        LET matching == FilterMonth(records, selectedMonth)
        IN  /\ \A i, k \in 1..Len(stateData) :
                   i # k => stateData[i].state # stateData[k].state
            /\ { stateData[i].state : i \in 1..Len(stateData) }
                   = { matching[r].State : r \in 1..Len(matching) }
            /\ \A i \in 1..Len(stateData) :
                   /\ Len(stateData[i].districts) >= 1
                   /\ \A j \in 1..Len(stateData[i].districts) :
                          stateData[i].districts[j].state = stateData[i].state
            /\ SumSeq([i \in 1..Len(stateData) |-> Len(stateData[i].districts)])
                   = Len(matching)

\* the records of a region are apart in the list, with another region between
\* them: the region has one summary of two sub-regions
C30_Witness ==
    /\ ~isLoading
    /\ Len(records) = 3
    /\ records[1].State = records[3].State
    /\ records[1].State # records[2].State
    /\ \A r \in 1..3 : records[r].Month = selectedMonth
    /\ Len(stateData) = 2
    /\ Len(stateData[1].districts) = 2
    /\ Len(stateData[2].districts) = 1

====
